---- MODULE Spec2Model ----
(***************************************************************************)
(* RetroShield Z80 emulator: the bus, the UART models, the input queue     *)
(* and the host loops of its three front-ends                              *)
(*   headless : src/retroshield.c      (stdin/stdout)                      *)
(*   nc       : src/retroshield_nc.c   (notcurses debugger)                *)
(*   tui      : src/retroshield_tui.c  (ncurses debugger)                  *)
(* The Z80 core itself (z80.c) is not part of src/; the part of it the     *)
(* host loops depend on (EI delay, HALT, interrupt acceptance) is modelled *)
(* from spec.md section 4.5.                                               *)
(***************************************************************************)
EXTENDS Integers, Naturals, Sequences, FiniteSets, TLC

VARIABLES
    fe,            \* which front-end is running
    phase,         \* position of main(): init, failed, poll, step, check, exit
    rom_size,      \* uint16_t rom_size (headless, nc)
    memory,        \* uint8_t memory[MEM_SIZE], observed at the addresses of AddrSet
    cpu,           \* the fields of the z80 struct the host loops read
    int_pending,   \* headless: bool int_pending of main()
    int_signaled,  \* nc: static bool int_signaled
    uses_8251,     \* static bool uses_8251 (headless, nc)
    acia_control,  \* headless: static uint8_t acia_control
    input_buffer,  \* nc, tui: char input_buffer[INPUT_BUF_SIZE]
    input_head,    \* nc, tui: int input_head
    input_tail,    \* nc, tui: int input_tail
    stdin_q,       \* headless: the bytes pending on standard input
    stdin_closed,  \* headless: the host closed standard input (end-of-file follows stdin_q)
    stdin_eof,     \* headless: static bool stdin_eof
    paused,        \* nc: static bool paused
    frame_i,       \* nc: the counter i of the run loop of one frame
    max_cycles,    \* headless: static int max_cycles (option -c)
    sd,            \* headless: the SD card emulation state and the host's storage directory
    mem_view_addr, \* nc, tui: static uint16_t mem_view_addr
    dump,          \* headless: dump_addr, dump_len (option -m) and the row counter i of the dump
    image,         \* history: the image file handed to load_rom
    last,          \* history: the last callback made and what it returned
    hist           \* history: counters and byte sequences of the run so far

vars == <<fe, phase, rom_size, memory, cpu, int_pending, int_signaled, uses_8251,
          acia_control, input_buffer, input_head, input_tail, stdin_q, stdin_closed,
          stdin_eof, paused, frame_i, max_cycles, sd, mem_view_addr, dump, image, last, hist>>

FrontEnds == {"headless", "nc", "tui"}

(***************************************************************************)
(* Program constants                                                       *)
(***************************************************************************)
MEM_SIZE == 65536
TUI_MEM_SIZE == 32768
TUI_ROM_SIZE == 8192
RAM_START == 8192

\* dump_addr = 0, dump_len = 256 and the dump not started
NoDump == [addr |-> 0, len |-> 256, i |-> 0]

\* The initial mem_view_addr: RAM_START in tui, 0x0000 in nc (headless has none)
ViewStart(f) == IF f = "tui" THEN RAM_START ELSE 0
DefaultRomSize == 8192
MintRomSize == 2048
INPUT_BUF_SIZE == 256

ACIA_CTRL == 128
ACIA_DATA == 129
ACIA_RDRF == 1
ACIA_TDRE == 2
USART_DATA == 0
USART_CTRL == 1
STAT_8251_RxRDY == 2
USART_STATUS_INIT == 133
IrqVector == 255

SD_CMD_PORT == 16
SD_STATUS_PORT == 17
SD_DATA_PORT == 18
SD_FNAME_PORT == 19
SD_SEEK_LO == 20
SD_SEEK_HI == 21
SD_CMD_OPEN_READ == 1
SD_CMD_CREATE == 2
SD_CMD_OPEN_APPEND == 3
SD_CMD_SEEK_START == 4
SD_CMD_CLOSE == 5
SD_CMD_DIR == 6
SD_CMD_OPEN_RW == 7
SD_CMD_SEEK_BYTE == 8
SD_CMD_SEEK_16 == 9
SD_STATUS_READY == 1
SD_STATUS_ERROR == 2
SD_STATUS_DATA == 128
SD_FNAME_SIZE == 256

Byte == 0..255

(***************************************************************************)
(* Bus                                                                     *)
(***************************************************************************)
\* The addresses at which the model observes the 64 KiB address space: both
\* sides of each boundary the front-ends compare an address with.
AddrSet == {0, 2047, 2048, 8191, 8192, 32767, 32768, 65535}

\* The byte a ROM image file holds at offset a (never zero, so that a copied
\* byte differs from the zero the memset left).
ImageByte(a) == 1 + (a % 255)

\* Bytes a guest store writes
WriteVals == {85}

\* Image files: their length in bytes; a file may also fail to open.
ImageLens == {0, 1, 8193, 65536, 65537}

Min(a, b) == IF a < b THEN a ELSE b

\* configure_rom: "mint" in the basename selects a 2 KB ROM, else 8 KB.
configure_rom(isMint) == IF isMint THEN MintRomSize ELSE DefaultRomSize

\* The number of bytes fread() is asked for by load_rom.
LoadLimit(f) == IF f = "tui" THEN TUI_ROM_SIZE ELSE MEM_SIZE

\* load_rom: fread(memory, 1, limit, f) on the zeroed array; the byte count read.
BytesRead(f, file) == IF file.exists THEN Min(file.n, LoadLimit(f)) ELSE 0

\* The observed addresses that lie inside the front-end's memory[] array
MemAddrs(f) == {a \in AddrSet : a < (IF f = "tui" THEN TUI_MEM_SIZE ELSE MEM_SIZE)}

\* memset(memory, 0, sizeof(memory)) followed by load_rom's fread
LoadedMemory(f, file) ==
    [a \in MemAddrs(f) |-> IF a < BytesRead(f, file) THEN ImageByte(a) ELSE 0]

\* load_rom's result: 0 on success, -1 when the file cannot be opened or is empty.
load_rom(f, file) == IF file.exists /\ BytesRead(f, file) > 0 THEN 0 ELSE -1

\* mem_read callback
mem_read(f, mem, addr) ==
    IF f = "tui"
    THEN (IF addr < TUI_MEM_SIZE THEN mem[addr] ELSE 255)
    ELSE mem[addr]

\* mem_write without the ROM guard
mem_write_unprotected(f, rs, mem, addr, val) ==
    IF addr \in DOMAIN mem THEN [mem EXCEPT ![addr] = val] ELSE mem

\* mem_write callback: the memory after the call
mem_write(f, rs, mem, addr, val) ==
    IF f = "tui"
    THEN (IF addr >= RAM_START /\ addr < TUI_MEM_SIZE
          THEN [mem EXCEPT ![addr] = val] ELSE mem)
    ELSE (IF addr >= rs THEN [mem EXCEPT ![addr] = val] ELSE mem)

(***************************************************************************)
(* Input queue (nc: input_available/input_getchar/input_putchar,           *)
(*              tui: input_available/input_get/input_put)                  *)
(* and standard input (headless: kbhit/getchar)                            *)
(***************************************************************************)
\* Conversions between uint8_t and the (signed) char the ring stores
ToChar(b) == IF b >= 128 THEN b - 256 ELSE b
ToU8(c) == c % 256

EOF == -1

\* The UART-side state the port callbacks read and write, as one record
IO == [uses_8251 |-> uses_8251, acia_control |-> acia_control,
       input_buffer |-> input_buffer, input_head |-> input_head,
       input_tail |-> input_tail, int_signaled |-> int_signaled,
       stdin_q |-> stdin_q, stdin_closed |-> stdin_closed, stdin_eof |-> stdin_eof,
       sd |-> sd]

SetIO(io) ==
    /\ uses_8251' = io.uses_8251
    /\ acia_control' = io.acia_control
    /\ input_buffer' = io.input_buffer
    /\ input_head' = io.input_head
    /\ input_tail' = io.input_tail
    /\ int_signaled' = io.int_signaled
    /\ stdin_q' = io.stdin_q
    /\ stdin_closed' = io.stdin_closed
    /\ stdin_eof' = io.stdin_eof
    /\ sd' = io.sd

\* nc, tui: input_available()
input_available(io) == io.input_head # io.input_tail

\* input_getchar that hands out the newest byte instead of the oldest
input_getchar_newest(io) ==
    IF io.input_head = io.input_tail
    THEN [c |-> 0, io |-> io]
    ELSE [c |-> io.input_buffer[(io.input_head + INPUT_BUF_SIZE - 1) % INPUT_BUF_SIZE],
          io |-> [io EXCEPT !.input_tail = (io.input_tail + 1) % INPUT_BUF_SIZE,
                            !.int_signaled = FALSE]]

\* nc: input_getchar(): the char returned and the state after the call
input_getchar(io) ==
    IF io.input_head = io.input_tail
    THEN [c |-> 0, io |-> io]
    ELSE [c |-> io.input_buffer[io.input_tail],
          io |-> [io EXCEPT !.input_tail = (io.input_tail + 1) % INPUT_BUF_SIZE,
                            !.int_signaled = FALSE]]

\* input_get that advances input_tail without wrapping at the buffer size
input_get_no_wrap(io) ==
    IF io.input_head = io.input_tail
    THEN [c |-> 0, io |-> io]
    ELSE [c |-> io.input_buffer[io.input_tail],
          io |-> [io EXCEPT !.input_tail = io.input_tail + 1]]

\* tui: input_get()
input_get(io) ==
    IF io.input_head = io.input_tail
    THEN [c |-> 0, io |-> io]
    ELSE [c |-> io.input_buffer[io.input_tail],
          io |-> [io EXCEPT !.input_tail = (io.input_tail + 1) % INPUT_BUF_SIZE]]

\* input_putchar that stores the byte even when the ring is full
input_putchar_overwrite(io, c) ==
    LET next == (io.input_head + 1) % INPUT_BUF_SIZE
    IN  IF next # io.input_tail
        THEN [io EXCEPT !.input_buffer[io.input_head] = c,
                        !.input_head = next,
                        !.int_signaled = FALSE]
        ELSE [io EXCEPT !.input_buffer[io.input_head] = c]

\* nc: input_putchar(c)
input_putchar(io, c) ==
    LET next == (io.input_head + 1) % INPUT_BUF_SIZE
    IN  IF next # io.input_tail
        THEN [io EXCEPT !.input_buffer[io.input_head] = c,
                        !.input_head = next,
                        !.int_signaled = FALSE]
        ELSE io

\* tui: input_put(c)
input_put(io, c) ==
    LET next == (io.input_head + 1) % INPUT_BUF_SIZE
    IN  IF next # io.input_tail
        THEN [io EXCEPT !.input_buffer[io.input_head] = c,
                        !.input_head = next]
        ELSE io

\* headless: kbhit(): select() reports standard input readable, which it is
\* when bytes are pending and also when the stream is at end-of-file.
kbhit(io) ==
    IF io.stdin_eof THEN FALSE
    ELSE io.stdin_q # <<>> \/ io.stdin_closed

\* headless: getchar() called after kbhit() returned true
getchar(io) ==
    IF io.stdin_q # <<>>
    THEN [c |-> Head(io.stdin_q), io |-> [io EXCEPT !.stdin_q = Tail(io.stdin_q)]]
    ELSE [c |-> EOF, io |-> io]

\* the case fold with an exclusive upper bound
ToUpperBelowZ(c) == IF c >= 97 /\ c < 122 THEN c - 97 + 65 ELSE c

\* if (c >= 'a' && c <= 'z') c = c - 'a' + 'A';
ToUpper(c) == IF c >= 97 /\ c <= 122 THEN c - 97 + 65 ELSE c

\* a | b for a status byte a and a single flag bit b
BitSet(a, b) == IF (a \div b) % 2 = 1 THEN a ELSE a + b

(***************************************************************************)
(* SD card emulation (headless).  sd holds the static sd_* variables, the  *)
(* host's storage directory they operate on, and the number of stdio       *)
(* streams and directory iterators currently open in the process.          *)
(***************************************************************************)
NoFile == [open |-> FALSE, name |-> <<>>, pos |-> 0, mode |-> "", lastop |-> ""]

NoDir == [open |-> FALSE, rest |-> <<>>]

\* The file the storage directory holds when it exists at start-up
StartFiles == [n \in {<<65>>} |-> <<7>>]

NoFiles == [n \in {} |-> <<>>]

\* The state at program start.  storage: "dir" (the directory exists),
\* "absent" (it can be created) or "blocked" (it neither exists nor can be
\* created).
SdInit(storage) ==
    [filename |-> [i \in 0..(SD_FNAME_SIZE - 1) |-> 0], filename_pos |-> 0,
     file |-> NoFile, status |-> SD_STATUS_READY, dir |-> NoDir,
     dir_entry |-> <<>>, dir_entry_pos |-> 0, seek_pos |-> 0,
     storage |-> storage, fs |-> IF storage = "dir" THEN StartFiles ELSE NoFiles,
     nfiles |-> 0, ndirs |-> 0, oracle |-> FALSE]

\* sd_filename as a C string: the bytes before the first NUL
CString(buf) ==
    LET n == CHOOSE k \in 0..(SD_FNAME_SIZE - 1) :
                 buf[k] = 0 /\ \A j \in 0..(k - 1) : buf[j] # 0
    IN  [k \in 1..n |-> buf[k - 1]]

\* mkdir(sd_storage_dir, 0755)
mkdir(d) == IF d.storage = "absent" THEN [d EXCEPT !.storage = "dir"] ELSE d

\* fclose(sd_file); sd_file = NULL, when a file is open
sd_close_file(d) ==
    IF d.file.open THEN [d EXCEPT !.file = NoFile, !.nfiles = @ - 1] ELSE d

\* fopen("storage/<sd_filename>", mode): mode "rb" and "r+b" need the file to
\* exist, "w+b" creates or truncates it.  A file created while a directory
\* listing is open may or may not show up in the listing.
fopen(d, mode) ==
    LET name == CString(d.filename)
        there == d.storage = "dir" /\ name \in DOMAIN d.fs
        ok == /\ d.storage = "dir"
              /\ name # <<>>
              /\ (mode = "w+b" \/ there)
        fs2 == IF mode = "w+b"
               THEN [n \in DOMAIN d.fs \cup {name} |-> IF n = name THEN <<>> ELSE d.fs[n]]
               ELSE d.fs
        dir2 == IF d.dir.open /\ mode = "w+b" /\ ~there /\ d.oracle
                THEN [d.dir EXCEPT !.rest = Append(@, name)] ELSE d.dir
    IN  IF ok
        THEN [d EXCEPT !.file = [open |-> TRUE, name |-> name, pos |-> 0,
                                 mode |-> mode, lastop |-> ""],
                       !.fs = fs2, !.dir = dir2, !.nfiles = @ + 1]
        ELSE d

\* an open command that leaves the previous stream open
sd_open_keep(d, mode, create, toEnd) ==
    LET d1 == IF create THEN mkdir(d) ELSE d
        d2 == fopen([d1 EXCEPT !.file = NoFile], mode)
    IN  IF d2.file.open
        THEN [d2 EXCEPT !.status = SD_STATUS_READY,
                        !.file.pos = IF toEnd THEN Len(d2.fs[d2.file.name]) ELSE 0]
        ELSE [d2 EXCEPT !.status = BitSet(SD_STATUS_READY, SD_STATUS_ERROR)]

\* SD_CMD_OPEN_READ, SD_CMD_CREATE, SD_CMD_OPEN_APPEND, SD_CMD_OPEN_RW
sd_open(d, mode, create, toEnd) ==
    LET d0 == sd_close_file(d)
        d1 == IF create THEN mkdir(d0) ELSE d0
        d2 == fopen(d1, mode)
    IN  IF d2.file.open
        THEN [d2 EXCEPT !.status = SD_STATUS_READY,
                        !.file.pos = IF toEnd THEN Len(d2.fs[d2.file.name]) ELSE 0]
        ELSE [d2 EXCEPT !.status = BitSet(SD_STATUS_READY, SD_STATUS_ERROR)]

\* SD_CMD_SEEK_START, SD_CMD_SEEK_BYTE, SD_CMD_SEEK_16: fseek(sd_file, pos, SEEK_SET)
sd_seek(d, pos) ==
    IF d.file.open
    THEN [d EXCEPT !.file.pos = pos, !.file.lastop = "", !.status = SD_STATUS_READY]
    ELSE [d EXCEPT !.status = BitSet(SD_STATUS_READY, SD_STATUS_ERROR)]

\* SD_CMD_CLOSE
sd_cmd_close(d) ==
    LET d1 == sd_close_file(d)
        d2 == IF d1.dir.open THEN [d1 EXCEPT !.dir = NoDir, !.ndirs = @ - 1] ELSE d1
    IN  [d2 EXCEPT !.status = SD_STATUS_READY]

\* The names readdir returns, "." and ".." left out, in the directory's order
Listing(fs) ==
    LET names == DOMAIN fs
        RECURSIVE order(_)
        order(S) == IF S = {} THEN <<>>
                    ELSE LET n == CHOOSE x \in S : \A y \in S :
                                      Len(x) < Len(y) \/ (Len(x) = Len(y) /\
                                          \A k \in 1..Len(x) : x[k] <= y[k] \/
                                              \E j \in 1..(k - 1) : x[j] < y[j])
                         IN  <<n>> \o order(S \ {n})
    IN  order(names)

\* SD_CMD_DIR
sd_cmd_dir(d) ==
    LET d0 == IF d.dir.open THEN [d EXCEPT !.ndirs = @ - 1] ELSE d
        d1 == mkdir(d0)
        ok == d1.storage = "dir"
    IN  [d1 EXCEPT !.dir = IF ok THEN [open |-> TRUE, rest |-> Listing(d1.fs)] ELSE NoDir,
                   !.ndirs = IF ok THEN @ + 1 ELSE @,
                   !.dir_entry = <<>>, !.dir_entry_pos = 0,
                   !.status = IF ok THEN SD_STATUS_READY
                              ELSE BitSet(SD_STATUS_READY, SD_STATUS_ERROR)]

\* port_out, port SD_CMD_PORT: the switch on the command byte
sd_command(d, val) ==
    IF val = SD_CMD_OPEN_READ THEN sd_open(d, "rb", FALSE, FALSE)
    ELSE IF val = SD_CMD_CREATE THEN sd_open(d, "w+b", TRUE, FALSE)
    ELSE IF val = SD_CMD_OPEN_APPEND THEN sd_open(d, "r+b", FALSE, TRUE)
    ELSE IF val = SD_CMD_SEEK_START THEN sd_seek(d, 0)
    ELSE IF val = SD_CMD_OPEN_RW THEN sd_open(d, "r+b", FALSE, FALSE)
    ELSE IF val = SD_CMD_CLOSE THEN sd_cmd_close(d)
    ELSE IF val = SD_CMD_DIR THEN sd_cmd_dir(d)
    ELSE IF val \in {SD_CMD_SEEK_BYTE, SD_CMD_SEEK_16} THEN sd_seek(d, d.seek_pos)
    ELSE d

\* fputc(val, sd_file): a stream opened "rb" takes no output.  Output that
\* directly follows input on an update stream is undefined: the byte is
\* stored at the position or lost.
fputc(d, val) ==
    LET f == d.file
        old == d.fs[f.name]
        n == IF Len(old) > f.pos + 1 THEN Len(old) ELSE f.pos + 1
        new == [k \in 1..n |-> IF k = f.pos + 1 THEN val
                               ELSE IF k <= Len(old) THEN old[k] ELSE 0]
    IN  IF f.mode = "rb" THEN d
        ELSE IF f.lastop = "r" /\ d.oracle THEN [d EXCEPT !.file.lastop = "w"]
        ELSE [d EXCEPT !.fs[f.name] = new, !.file.pos = @ + 1, !.file.lastop = "w"]

\* fgetc(sd_file): the byte read or EOF, and the stream after the call.
\* Input that directly follows output on an update stream is undefined: it
\* returns the byte at the position or end-of-file.
fgetc(d) ==
    LET f == d.file
        data == d.fs[f.name]
    IN  IF f.pos >= Len(data) \/ (f.lastop = "w" /\ d.oracle)
        THEN [c |-> EOF, sd |-> d]
        ELSE [c |-> data[f.pos + 1],
              sd |-> [d EXCEPT !.file.pos = @ + 1, !.file.lastop = "r"]]

\* the status read that looks at the file handle only
sd_status_read_file_only(d) ==
    IF d.file.open THEN BitSet(d.status, SD_STATUS_DATA) ELSE d.status

\* port_in, port SD_STATUS_PORT
sd_status_read(d) ==
    IF d.file.open \/ d.dir.open THEN BitSet(d.status, SD_STATUS_DATA) ELSE d.status

\* port_in, port SD_DATA_PORT: the branch that reads the directory listing
sd_dir_read(d) ==
    LET need == d.dir_entry_pos >= Len(d.dir_entry)
        more == d.dir.rest # <<>>
        entry == IF need /\ more THEN Head(d.dir.rest) \o <<13, 10>> ELSE d.dir_entry
        pos == IF need /\ more THEN 0 ELSE d.dir_entry_pos
    IN  IF need /\ ~more
        THEN [res |-> 0,
              sd |-> [d EXCEPT !.dir = NoDir, !.ndirs = @ - 1,
                               !.status = SD_STATUS_READY]]
        ELSE [res |-> entry[pos + 1],
              sd |-> [d EXCEPT !.dir.rest = IF need THEN Tail(@) ELSE @,
                               !.dir_entry = entry, !.dir_entry_pos = pos + 1]]

\* port_in, port SD_DATA_PORT
sd_data_read(d) ==
    IF d.file.open THEN
        LET g == fgetc(d)
        IN  IF g.c = EOF
            THEN [res |-> 0,
                  sd |-> [sd_close_file(g.sd) EXCEPT !.status = SD_STATUS_READY]]
            ELSE [res |-> g.c, sd |-> g.sd]
    ELSE IF d.dir.open THEN sd_dir_read(d)
    ELSE [res |-> 0, sd |-> d]

\* port_out, port SD_DATA_PORT
sd_data_write(d, val) == IF d.file.open THEN fputc(d, val) ELSE d

\* the filename port without the terminating NUL: only the cursor is reset
sd_fname_write_no_nul(d, val) ==
    IF val = 0
    THEN [d EXCEPT !.filename_pos = 0]
    ELSE IF d.filename_pos < SD_FNAME_SIZE - 1
    THEN [d EXCEPT !.filename[d.filename_pos] = val, !.filename_pos = @ + 1]
    ELSE d

\* port_out, port SD_FNAME_PORT
sd_fname_write(d, val) ==
    IF val = 0
    THEN [d EXCEPT !.filename[d.filename_pos] = 0, !.filename_pos = 0]
    ELSE IF d.filename_pos < SD_FNAME_SIZE - 1
    THEN [d EXCEPT !.filename[d.filename_pos] = val, !.filename_pos = @ + 1]
    ELSE d

\* port_out, ports SD_SEEK_LO and SD_SEEK_HI
sd_seek_lo(d, val) == [d EXCEPT !.seek_pos = (@ \div 256) * 256 + val]
sd_seek_hi(d, val) == [d EXCEPT !.seek_pos = (@ % 256) + val * 256]

(***************************************************************************)
(* Port callbacks.  port_in returns the byte read and the state after the  *)
(* call; port_out returns the bytes handed to the host output and the      *)
(* state after the call.                                                   *)
(***************************************************************************)
port_in_headless(io, port) ==
    IF port = ACIA_CTRL THEN
        [res |-> IF kbhit(io) THEN BitSet(ACIA_TDRE, ACIA_RDRF) ELSE ACIA_TDRE,
         io |-> io]
    ELSE IF port = ACIA_DATA THEN
        IF kbhit(io)
        THEN LET g == getchar(io)
             IN  IF g.c = EOF
                 THEN [res |-> 0, io |-> [g.io EXCEPT !.stdin_eof = TRUE]]
                 ELSE [res |-> ToU8(g.c), io |-> g.io]
        ELSE [res |-> 0, io |-> io]
    ELSE IF port = USART_CTRL THEN
        [res |-> IF kbhit(io) THEN BitSet(USART_STATUS_INIT, STAT_8251_RxRDY)
                 ELSE USART_STATUS_INIT,
         io |-> [io EXCEPT !.uses_8251 = TRUE]]
    ELSE IF port = USART_DATA THEN
        LET io1 == [io EXCEPT !.uses_8251 = TRUE]
        IN  IF kbhit(io1)
            THEN LET g == getchar(io1)
                 IN  IF g.c = EOF
                     THEN [res |-> 0, io |-> [g.io EXCEPT !.stdin_eof = TRUE]]
                     ELSE [res |-> ToU8(ToUpper(g.c)), io |-> g.io]
            ELSE [res |-> 0, io |-> io1]
    ELSE IF port = SD_STATUS_PORT THEN
        [res |-> sd_status_read(io.sd), io |-> io]
    ELSE IF port = SD_DATA_PORT THEN
        LET r == sd_data_read(io.sd)
        IN  [res |-> r.res, io |-> [io EXCEPT !.sd = r.sd]]
    ELSE [res |-> 255, io |-> io]

port_in_nc(io, port) ==
    IF port = ACIA_CTRL THEN
        [res |-> IF input_available(io) THEN BitSet(ACIA_TDRE, ACIA_RDRF) ELSE ACIA_TDRE,
         io |-> io]
    ELSE IF port = ACIA_DATA THEN
        IF input_available(io)
        THEN LET g == input_getchar(io) IN [res |-> ToU8(g.c), io |-> g.io]
        ELSE [res |-> 0, io |-> io]
    ELSE IF port = USART_CTRL THEN
        [res |-> IF input_available(io) THEN BitSet(USART_STATUS_INIT, STAT_8251_RxRDY)
                 ELSE USART_STATUS_INIT,
         io |-> [io EXCEPT !.uses_8251 = TRUE]]
    ELSE IF port = USART_DATA THEN
        LET io1 == [io EXCEPT !.uses_8251 = TRUE]
        IN  IF input_available(io1)
            THEN LET g == input_getchar(io1)
                 IN  [res |-> ToU8(ToUpper(g.c)), io |-> g.io]
            ELSE [res |-> 0, io |-> io1]
    ELSE [res |-> 255, io |-> io]

port_in_tui(io, port) ==
    IF port = ACIA_CTRL THEN
        [res |-> IF input_available(io) THEN BitSet(ACIA_TDRE, ACIA_RDRF) ELSE ACIA_TDRE,
         io |-> io]
    ELSE IF port = ACIA_DATA THEN
        LET g == input_get(io) IN [res |-> ToU8(g.c), io |-> g.io]
    ELSE [res |-> 255, io |-> io]

port_in(f, io, port) ==
    IF f = "headless" THEN port_in_headless(io, port)
    ELSE IF f = "nc" THEN port_in_nc(io, port)
    ELSE port_in_tui(io, port)

port_out_headless(io, port, val) ==
    IF port = ACIA_CTRL THEN [emit |-> <<>>, io |-> [io EXCEPT !.acia_control = val]]
    ELSE IF port = ACIA_DATA THEN [emit |-> <<val>>, io |-> io]
    ELSE IF port = USART_DATA THEN [emit |-> <<val>>, io |-> io]
    ELSE IF port = SD_CMD_PORT THEN
        [emit |-> <<>>, io |-> [io EXCEPT !.sd = sd_command(@, val)]]
    ELSE IF port = SD_DATA_PORT THEN
        [emit |-> <<>>, io |-> [io EXCEPT !.sd = sd_data_write(@, val)]]
    ELSE IF port = SD_FNAME_PORT THEN
        [emit |-> <<>>, io |-> [io EXCEPT !.sd = sd_fname_write(@, val)]]
    ELSE IF port = SD_SEEK_LO THEN
        [emit |-> <<>>, io |-> [io EXCEPT !.sd = sd_seek_lo(@, val)]]
    ELSE IF port = SD_SEEK_HI THEN
        [emit |-> <<>>, io |-> [io EXCEPT !.sd = sd_seek_hi(@, val)]]
    ELSE [emit |-> <<>>, io |-> io]

\* nc: the byte is handed to term_putchar
port_out_nc(io, port, val) ==
    IF port = ACIA_DATA THEN [emit |-> <<val>>, io |-> io]
    ELSE IF port = USART_DATA THEN [emit |-> <<val>>, io |-> io]
    ELSE IF port = USART_CTRL THEN [emit |-> <<>>, io |-> io]
    ELSE [emit |-> <<>>, io |-> io]

port_out_tui(io, port, val) ==
    IF port = ACIA_DATA THEN [emit |-> <<val>>, io |-> io]
    ELSE [emit |-> <<>>, io |-> io]

\* port_out that echoes bytes written to the ports between the SD and the ACIA range
port_out_echo(f, io, port, val) ==
    LET r == IF f = "headless" THEN port_out_headless(io, port, val)
             ELSE IF f = "nc" THEN port_out_nc(io, port, val)
             ELSE port_out_tui(io, port, val)
    IN  IF port > SD_SEEK_HI /\ port < ACIA_CTRL THEN [r EXCEPT !.emit = <<val>>] ELSE r

port_out(f, io, port, val) ==
    IF f = "headless" THEN port_out_headless(io, port, val)
    ELSE IF f = "nc" THEN port_out_nc(io, port, val)
    ELSE port_out_tui(io, port, val)

(***************************************************************************)
(* Z80 core, as far as the host loops depend on it (spec.md 4.5):          *)
(* one instruction per step, EI's one-instruction delay, HALT, and the     *)
(* acceptance of a maskable interrupt at the instruction boundary.         *)
(***************************************************************************)
Word(n) == n % 65536

\* z80_init
z80_init ==
    [pc |-> 0, iff1 |-> FALSE, iff2 |-> FALSE, iff_delay |-> 0, halted |-> FALSE,
     int_pending |-> FALSE, int_data |-> 0, interrupt_mode |-> 0, cyc |-> 0,
     stack |-> <<>>]

\* z80_gen_int(z, data): request a maskable interrupt
z80_gen_int(c, data) == [c EXCEPT !.int_pending = TRUE, !.int_data = data]

\* The guest instructions the model executes: length in bytes and T-states
InstrLen(i) == IF i.op \in {"IN", "OUT", "IM1"} THEN 2 ELSE 1
InstrCycles(i) == IF i.op \in {"IN", "OUT"} THEN 11 ELSE IF i.op = "IM1" THEN 8 ELSE 4

\* Execute one instruction: the cpu, the UART state, the byte an IN read and
\* the bytes an OUT handed to the host output.
exec_opcode(f, c, io, i) ==
    LET c1 == [c EXCEPT !.pc = Word(@ + InstrLen(i)), !.cyc = @ + InstrCycles(i)]
    IN  IF i.op = "EI" THEN
            [cpu |-> [c1 EXCEPT !.iff_delay = 1], io |-> io, res |-> 0, emit |-> <<>>]
        ELSE IF i.op = "DI" THEN
            [cpu |-> [c1 EXCEPT !.iff1 = FALSE, !.iff2 = FALSE],
             io |-> io, res |-> 0, emit |-> <<>>]
        ELSE IF i.op = "HALT" THEN
            [cpu |-> [c EXCEPT !.halted = TRUE, !.cyc = @ + InstrCycles(i)],
             io |-> io, res |-> 0, emit |-> <<>>]
        ELSE IF i.op = "IM1" THEN
            [cpu |-> [c1 EXCEPT !.interrupt_mode = 1], io |-> io, res |-> 0, emit |-> <<>>]
        ELSE IF i.op = "IN" THEN
            LET r == port_in(f, io, i.port)
            IN  [cpu |-> c1, io |-> r.io, res |-> r.res, emit |-> <<>>]
        ELSE IF i.op = "OUT" THEN
            LET r == port_out(f, io, i.port, i.val)
            IN  [cpu |-> c1, io |-> r.io, res |-> 0, emit |-> r.emit]
        ELSE [cpu |-> c1, io |-> io, res |-> 0, emit |-> <<>>]

\* the instruction boundary without EI's delay: the flip-flops are set at once
\* and a requested interrupt is accepted at the boundary of EI itself
process_interrupts_no_delay(c) ==
    LET c0 == IF c.iff_delay > 0
              THEN [c EXCEPT !.iff_delay = 0, !.iff1 = TRUE, !.iff2 = TRUE]
              ELSE c
    IN  IF c0.int_pending /\ c0.iff1 THEN
            [cpu |-> [c0 EXCEPT !.int_pending = FALSE, !.halted = FALSE,
                                !.iff1 = FALSE, !.iff2 = FALSE,
                                !.stack = <<IF c0.halted THEN Word(c0.pc + 1) ELSE c0.pc>> \o @,
                                !.pc = 56, !.cyc = @ + 13],
             accepted |-> TRUE]
        ELSE [cpu |-> c0, accepted |-> FALSE]

\* The instruction boundary: the EI delay runs out, or a requested interrupt
\* is accepted (IFF1 set): both flip-flops and halted clear, the address of the
\* next instruction is pushed, and IM0 with vector 0xFF (RST 38h) and IM1 both
\* continue at 0x0038.
process_interrupts(c) ==
    IF c.iff_delay > 0 THEN
        LET d == c.iff_delay - 1
        IN  [cpu |-> IF d = 0
                     THEN [c EXCEPT !.iff_delay = 0, !.iff1 = TRUE, !.iff2 = TRUE]
                     ELSE [c EXCEPT !.iff_delay = d],
             accepted |-> FALSE]
    ELSE IF c.int_pending /\ c.iff1 THEN
        [cpu |-> [c EXCEPT !.int_pending = FALSE, !.halted = FALSE,
                           !.iff1 = FALSE, !.iff2 = FALSE,
                           !.stack = <<IF c.halted THEN Word(c.pc + 1) ELSE c.pc>> \o @,
                           !.pc = 56, !.cyc = @ + 13],
         accepted |-> TRUE]
    ELSE [cpu |-> c, accepted |-> FALSE]

\* z80_step: a halted CPU spends 4 T-states, any other executes the
\* instruction at PC; the boundary follows.
z80_step(f, c, io, i) ==
    LET e == IF c.halted
             THEN [cpu |-> [c EXCEPT !.cyc = @ + 4], io |-> io, res |-> 0, emit |-> <<>>]
             ELSE exec_opcode(f, c, io, i)
        b == process_interrupts(e.cpu)
    IN  [cpu |-> b.cpu, io |-> e.io, res |-> e.res, emit |-> e.emit,
         accepted |-> b.accepted]

(***************************************************************************)
(* Disassembler (src/z80_disasm.c).  mem is the 64 KiB array handed to     *)
(* z80_disasm, given by the bytes placed from address mem.base on (the     *)
(* placement wraps at 0xFFFF) and zero everywhere else.  The result is the *)
(* length returned and the text written to buf.                            *)
(***************************************************************************)
\* mem[a & 0xFFFF]
Peek(mem, a) ==
    LET k == ((a % 65536) - mem.base) % 65536
    IN  IF k < Len(mem.bytes) THEN mem.bytes[k + 1] ELSE 0

\* mem[(a+1) & 0xFFFF] | (mem[(a+2) & 0xFFFF] << 8)
Peek16(mem, a) == Peek(mem, a + 1) + 256 * Peek(mem, a + 2)

HexDigits == <<"0", "1", "2", "3", "4", "5", "6", "7", "8", "9", "A", "B", "C", "D", "E", "F">>

\* printf conversions %02X, %04X, %d and %+d
Hex2(n) == HexDigits[(n \div 16) + 1] \o HexDigits[(n % 16) + 1]
Hex4(n) == Hex2(n \div 256) \o Hex2(n % 256)

RECURSIVE Dec(_)
Dec(n) == IF n < 10 THEN HexDigits[n + 1] ELSE Dec(n \div 10) \o HexDigits[(n % 10) + 1]

SignedDec(d) == IF d < 0 THEN "-" \o Dec(0 - d) ELSE "+" \o Dec(d)

\* the displacement byte taken as unsigned
Signed8_unsigned(b) == b

\* (int8_t)b
Signed8(b) == IF b >= 128 THEN b - 256 ELSE b

r8 == <<"B", "C", "D", "E", "H", "L", "(HL)", "A">>
r16 == <<"BC", "DE", "HL", "SP">>
r16af == <<"BC", "DE", "HL", "AF">>
cc == <<"NZ", "Z", "NC", "C", "PO", "PE", "P", "M">>
alu == <<"ADD A,", "ADC A,", "SUB", "SBC A,", "AND", "XOR", "OR", "CP">>

\* disasm_cb; ixiy = "" stands for the NULL pointer
disasm_cb(mem, addr, ixiy, d) ==
    LET op == Peek(mem, addr + (IF ixiy # "" THEN 1 ELSE 0))
        x == op \div 64
        y == (op \div 8) % 8
        z == op % 8
        rot == <<"RLC", "RRC", "RL", "RR", "SLA", "SRA", "SLL", "SRL">>
        head == IF x = 0 THEN rot[y + 1] \o " "
                ELSE (IF x = 1 THEN "BIT " ELSE IF x = 2 THEN "RES " ELSE "SET ")
                         \o Dec(y) \o ","
    IN  IF ixiy # "" /\ z = 6
        THEN [len |-> 4, text |-> head \o "(" \o ixiy \o SignedDec(d) \o ")"]
        ELSE [len |-> 2, text |-> head \o r8[z + 1]]

\* disasm_ed
disasm_ed(mem, addr) ==
    LET op == Peek(mem, addr)
        x == op \div 64
        y == (op \div 8) % 8
        z == op % 8
        p == y \div 2
        q == y % 2
        nn == Peek16(mem, addr)
        im == <<"0", "0/1", "1", "2", "0", "0/1", "1", "2">>
        misc == <<"LD I,A", "LD R,A", "LD A,I", "LD A,R", "RRD", "RLD", "NOP", "NOP">>
        blk == << <<"LDI", "CPI", "INI", "OUTI">>, <<"LDD", "CPD", "IND", "OUTD">>,
                  <<"LDIR", "CPIR", "INIR", "OTIR">>, <<"LDDR", "CPDR", "INDR", "OTDR">> >>
    IN  IF x = 1 THEN
            IF z = 0 THEN
                [len |-> 2, text |-> IF y = 6 THEN "IN (C)" ELSE "IN " \o r8[y + 1] \o ",(C)"]
            ELSE IF z = 1 THEN
                [len |-> 2, text |-> IF y = 6 THEN "OUT (C),0" ELSE "OUT (C)," \o r8[y + 1]]
            ELSE IF z = 2 THEN
                [len |-> 2, text |-> (IF q = 0 THEN "SBC HL," ELSE "ADC HL,") \o r16[p + 1]]
            ELSE IF z = 3 THEN
                [len |-> 4,
                 text |-> IF q = 0 THEN "LD ($" \o Hex4(nn) \o ")," \o r16[p + 1]
                          ELSE "LD " \o r16[p + 1] \o ",($" \o Hex4(nn) \o ")"]
            ELSE IF z = 4 THEN [len |-> 2, text |-> "NEG"]
            ELSE IF z = 5 THEN [len |-> 2, text |-> IF y = 1 THEN "RETI" ELSE "RETN"]
            ELSE IF z = 6 THEN [len |-> 2, text |-> "IM " \o im[y + 1]]
            ELSE [len |-> 2, text |-> misc[y + 1]]
        ELSE IF x = 2 /\ z <= 3 /\ y >= 4 THEN
            [len |-> 2, text |-> blk[y - 3][z + 1]]
        ELSE [len |-> 2, text |-> "DB $ED,$" \o Hex2(op)]

\* z80_disasm, main opcodes with x == 0.  ixiy = "" stands for NULL, pl is
\* prefix_len, addr the address of the opcode byte.
disasm_x0(mem, addr, op, ixiy, pl) ==
    LET y == (op \div 8) % 8
        z == op % 8
        p == y \div 2
        q == y % 2
        d == Signed8(Peek(mem, addr + 1))
        n == Peek(mem, addr + 1)
        nn == Peek16(mem, addr)
        target == (addr + 2 + d) % 65536
        ix == ixiy # ""
        ld2 == <<"LD (BC),A", "LD A,(BC)", "LD (DE),A", "LD A,(DE)">>
        misc == <<"RLCA", "RRCA", "RLA", "RRA", "DAA", "CPL", "SCF", "CCF">>
    IN  IF z = 0 THEN
            IF y = 0 THEN [len |-> 1 + pl, text |-> "NOP"]
            ELSE IF y = 1 THEN [len |-> 1 + pl, text |-> "EX AF,AF'"]
            ELSE IF y = 2 THEN [len |-> 2 + pl, text |-> "DJNZ $" \o Hex4(target)]
            ELSE IF y = 3 THEN [len |-> 2 + pl, text |-> "JR $" \o Hex4(target)]
            ELSE [len |-> 2 + pl, text |-> "JR " \o cc[y - 3] \o ",$" \o Hex4(target)]
        ELSE IF z = 1 THEN
            IF q = 0
            THEN [len |-> 3 + pl,
                  text |-> "LD " \o (IF ix /\ p = 2 THEN ixiy ELSE r16[p + 1]) \o ",$" \o Hex4(nn)]
            ELSE [len |-> 1 + pl,
                  text |-> IF ix /\ p = 2 THEN "ADD " \o ixiy \o "," \o r16[p + 1]
                           ELSE "ADD HL," \o r16[p + 1]]
        ELSE IF z = 2 THEN
            IF y < 4 THEN [len |-> 1 + pl, text |-> ld2[y + 1]]
            ELSE [len |-> 3 + pl,
                  text |-> IF y = 4 THEN "LD ($" \o Hex4(nn) \o ")," \o (IF ix THEN ixiy ELSE "HL")
                           ELSE IF y = 5
                           THEN "LD " \o (IF ix THEN ixiy ELSE "HL") \o ",($" \o Hex4(nn) \o ")"
                           ELSE IF y = 6 THEN "LD ($" \o Hex4(nn) \o "),A"
                           ELSE "LD A,($" \o Hex4(nn) \o ")"]
        ELSE IF z = 3 THEN
            [len |-> 1 + pl,
             text |-> (IF q = 1 THEN "DEC " ELSE "INC ")
                          \o (IF ix /\ p = 2 THEN ixiy ELSE r16[p + 1])]
        ELSE IF z \in {4, 5} THEN
            LET m == IF z = 4 THEN "INC " ELSE "DEC "
            IN  IF ix /\ y = 6
                THEN [len |-> 3, text |-> m \o "(" \o ixiy \o SignedDec(d) \o ")"]
                ELSE [len |-> 1 + pl, text |-> m \o r8[y + 1]]
        ELSE IF z = 6 THEN
            IF ix /\ y = 6
            THEN [len |-> 4,
                  text |-> "LD (" \o ixiy \o SignedDec(d) \o "),$" \o Hex2(Peek(mem, addr + 2))]
            ELSE [len |-> 2 + pl, text |-> "LD " \o r8[y + 1] \o ",$" \o Hex2(n)]
        ELSE [len |-> 1 + pl, text |-> misc[y + 1]]

\* z80_disasm, main opcodes with x == 1 and x == 2
disasm_x12(mem, addr, op, ixiy, pl) ==
    LET x == op \div 64
        y == (op \div 8) % 8
        z == op % 8
        d == Signed8(Peek(mem, addr + 1))
        ix == ixiy # ""
        idx == "(" \o ixiy \o SignedDec(d) \o ")"
    IN  IF x = 1 THEN
            IF z = 6 /\ y = 6 THEN [len |-> 1 + pl, text |-> "HALT"]
            ELSE IF ix /\ (y = 6 \/ z = 6)
            THEN [len |-> 3,
                  text |-> IF y = 6 THEN "LD " \o idx \o "," \o r8[z + 1]
                           ELSE "LD " \o r8[y + 1] \o "," \o idx]
            ELSE [len |-> 1 + pl, text |-> "LD " \o r8[y + 1] \o "," \o r8[z + 1]]
        ELSE IF ix /\ z = 6
        THEN [len |-> 3, text |-> alu[y + 1] \o " " \o idx]
        ELSE [len |-> 1 + pl, text |-> alu[y + 1] \o " " \o r8[z + 1]]

\* z80_disasm, main opcodes with x == 3, and the DB fallback
disasm_x3(mem, addr, op, ixiy, pl) ==
    LET y == (op \div 8) % 8
        z == op % 8
        p == y \div 2
        q == y % 2
        n == Peek(mem, addr + 1)
        nn == Peek16(mem, addr)
        ix == ixiy # ""
        misc == <<"RET", "EXX", "JP (HL)", "LD SP,HL">>
        db == [len |-> 1 + pl, text |-> "DB $" \o Hex2(op)]
    IN  IF z = 0 THEN [len |-> 1 + pl, text |-> "RET " \o cc[y + 1]]
        ELSE IF z = 1 THEN
            [len |-> 1 + pl,
             text |-> IF q = 0 THEN "POP " \o (IF ix /\ p = 2 THEN ixiy ELSE r16af[p + 1])
                      ELSE IF ix /\ p >= 2
                      THEN (IF p = 2 THEN "JP (" \o ixiy \o ")" ELSE "LD SP," \o ixiy)
                      ELSE misc[p + 1]]
        ELSE IF z = 2 THEN [len |-> 3 + pl, text |-> "JP " \o cc[y + 1] \o ",$" \o Hex4(nn)]
        ELSE IF z = 3 THEN
            IF y = 0 THEN [len |-> 3 + pl, text |-> "JP $" \o Hex4(nn)]
            ELSE IF y = 2 THEN [len |-> 2 + pl, text |-> "OUT ($" \o Hex2(n) \o "),A"]
            ELSE IF y = 3 THEN [len |-> 2 + pl, text |-> "IN A,($" \o Hex2(n) \o ")"]
            ELSE IF y = 4
            THEN [len |-> 1 + pl, text |-> "EX (SP)," \o (IF ix THEN ixiy ELSE "HL")]
            ELSE IF y = 5 THEN [len |-> 1 + pl, text |-> "EX DE,HL"]
            ELSE IF y = 6 THEN [len |-> 1 + pl, text |-> "DI"]
            ELSE IF y = 7 THEN [len |-> 1 + pl, text |-> "EI"]
            ELSE db
        ELSE IF z = 4 THEN [len |-> 3 + pl, text |-> "CALL " \o cc[y + 1] \o ",$" \o Hex4(nn)]
        ELSE IF z = 5 THEN
            IF q = 0
            THEN [len |-> 1 + pl,
                  text |-> "PUSH " \o (IF ix /\ p = 2 THEN ixiy ELSE r16af[p + 1])]
            ELSE IF p = 0 THEN [len |-> 3 + pl, text |-> "CALL $" \o Hex4(nn)]
            ELSE db
        ELSE IF z = 6 THEN [len |-> 2 + pl, text |-> alu[y + 1] \o " $" \o Hex2(n)]
        ELSE [len |-> 1 + pl, text |-> "RST $" \o Hex2(y * 8)]

\* z80_disasm(mem, addr, buf, bufsize): the length returned and the text in buf
z80_disasm(mem, addr0) ==
    LET op0 == Peek(mem, addr0)
        pre == op0 \in {221, 253}
        ixiy == IF op0 = 221 THEN "IX" ELSE IF op0 = 253 THEN "IY" ELSE ""
        pl == IF pre THEN 1 ELSE 0
        addr == IF pre THEN Word(addr0 + 1) ELSE addr0
        op == Peek(mem, addr)
        x == op \div 64
    IN  IF op = 203 THEN
            IF pre THEN disasm_cb(mem, addr + 1, ixiy, Signed8(Peek(mem, addr + 1)))
            ELSE disasm_cb(mem, addr + 1, "", 0)
        ELSE IF op = 237 THEN
            LET e == disasm_ed(mem, addr + 1) IN [len |-> pl + e.len, text |-> e.text]
        ELSE IF x = 0 THEN disasm_x0(mem, addr, op, ixiy, pl)
        ELSE IF x \in {1, 2} THEN disasm_x12(mem, addr, op, ixiy, pl)
        ELSE disasm_x3(mem, addr, op, ixiy, pl)

(***************************************************************************)
(* History records                                                         *)
(***************************************************************************)
NoCall == [op |-> "none", a |-> 0, v |-> 0, res |-> 0, before |-> <<>>, emit |-> <<>>,
           hadfile |-> FALSE]

NoHist == [pushed |-> <<>>, popped |-> <<>>, npush |-> 0, touched |-> FALSE,
           irqs |-> 0, accepts |-> 0, ei |-> FALSE]

NoImage == [exists |-> FALSE, n |-> 0, loaded |-> <<>>]

\* The bytes waiting in the ring, oldest first
RingContent(io) ==
    LET n == (io.input_head - io.input_tail) % INPUT_BUF_SIZE
    IN  [k \in 1..n |-> ToU8(io.input_buffer[(io.input_tail + k - 1) % INPUT_BUF_SIZE])]

\* The pushed bytes no data-port read has returned yet
Pending(f, io) == IF f = "headless" THEN io.stdin_q ELSE RingContent(io)

IsDataPort(f, port) == port = ACIA_DATA \/ (f # "tui" /\ port = USART_DATA)

\* hist after a port read that returned res
HistIn(h, f, io, port, res) ==
    [h EXCEPT !.popped = IF IsDataPort(f, port) /\ Pending(f, io) # <<>>
                         THEN Append(@, [port |-> port, b |-> res]) ELSE @,
              !.touched = @ \/ port \in {USART_DATA, USART_CTRL}]

HistOut(h, port) == [h EXCEPT !.touched = @ \/ port \in {USART_DATA, USART_CTRL}]

\* hist after a push that took the input from io to io2
HistPush(h, f, io, io2) ==
    LET old == Pending(f, io)
        new == Pending(f, io2)
    IN  [h EXCEPT !.pushed = @ \o SubSeq(new, Len(old) + 1, Len(new)),
                  !.npush = @ + 1]

(***************************************************************************)
(* Bounds                                                                  *)
(***************************************************************************)
\* pushes of input bytes in one run
MaxPush == 2

(***************************************************************************)
(* Start-up: main() up to the main loop                                    *)
(***************************************************************************)
IdleUart ==
    /\ int_pending = FALSE
    /\ int_signaled = FALSE
    /\ uses_8251 = FALSE
    /\ acia_control = 0
    /\ input_buffer = [i \in 0..(INPUT_BUF_SIZE - 1) |-> 0]
    /\ input_head = 0
    /\ input_tail = 0
    /\ stdin_q = <<>>
    /\ stdin_closed = FALSE
    /\ stdin_eof = FALSE
    /\ paused = TRUE
    /\ frame_i = 0
    /\ max_cycles = 0
    /\ sd = SdInit("absent")
    /\ mem_view_addr = ViewStart(fe)
    /\ dump = NoDump

Init ==
    /\ fe \in FrontEnds
    /\ phase = "init"
    /\ rom_size = DefaultRomSize
    /\ memory = [a \in MemAddrs(fe) |-> 0]
    /\ cpu = z80_init
    /\ IdleUart
    /\ image = NoImage
    /\ last = NoCall
    /\ hist = NoHist

UartVars == <<int_signaled, uses_8251, acia_control, input_buffer, input_head,
              input_tail, stdin_q, stdin_closed, stdin_eof, sd>>

\* main(): memset, configure_rom, load_rom, z80_init
Load(isMint, file) ==
    /\ phase = "init"
    /\ rom_size' = IF fe = "tui" THEN rom_size ELSE configure_rom(isMint)
    /\ memory' = LoadedMemory(fe, file)
    /\ phase' = IF load_rom(fe, file) = 0 THEN "run" ELSE "failed"
    /\ cpu' = z80_init
    /\ image' = [exists |-> file.exists, n |-> file.n, loaded |-> LoadedMemory(fe, file)]
    /\ last' = [NoCall EXCEPT !.op = "load", !.res = load_rom(fe, file)]
    /\ UNCHANGED <<dump, mem_view_addr, fe, int_pending, paused, frame_i, max_cycles, hist>>
    /\ UNCHANGED UartVars

\* A guest store reaches mem_write
GuestMemWrite(addr, val) ==
    /\ phase = "run"
    /\ memory' = mem_write(fe, rom_size, memory, addr, val)
    /\ last' = [NoCall EXCEPT !.op = "write", !.a = addr, !.v = val]
    /\ UNCHANGED <<dump, mem_view_addr, fe, phase, rom_size, cpu, int_pending, paused, frame_i, max_cycles,
                   image, hist>>
    /\ UNCHANGED UartVars

\* A guest load reaches mem_read
GuestMemRead(addr) ==
    /\ phase = "run"
    /\ last' = [NoCall EXCEPT !.op = "read", !.a = addr,
                              !.res = mem_read(fe, memory, addr)]
    /\ UNCHANGED <<dump, mem_view_addr, fe, phase, rom_size, memory, cpu, int_pending, paused, frame_i,
                   max_cycles, image, hist>>
    /\ UNCHANGED UartVars

ImageFiles == {[exists |-> FALSE, n |-> 0]} \cup {[exists |-> TRUE, n |-> k] : k \in ImageLens}

Next ==
    \/ \E m \in BOOLEAN, file \in ImageFiles : Load(m, file)
    \/ \E a \in AddrSet, v \in WriteVals : GuestMemWrite(a, v)
    \/ \E a \in AddrSet : GuestMemRead(a)

Spec == Init /\ [][Next]_vars

(***************************************************************************)
(* The UART ports and the input queue on their own: the guest's port       *)
(* accesses and the host's input, in the three front-ends.                 *)
(***************************************************************************)
\* Ports the guest accesses: the two UARTs and one unmapped port
PortSet == {USART_DATA, USART_CTRL, ACIA_CTRL, ACIA_DATA, 66}

\* Bytes the guest writes to a port
OutVals == {97}

\* Bytes arriving on standard input (headless)
StdinBytes == {96, 97, 122, 123, 225}

\* Keys of the notcurses front-end: a character id, Enter or Backspace
NcKeys == {[kind |-> "char", id |-> k] : k \in {97, 122, 123, 200}}
              \cup {[kind |-> "ENTER", id |-> 0], [kind |-> "BACKSPACE", id |-> 0]}

\* Keys of the ncurses front-end that reach the default or newline case
TuiKeys == {10, 97, 122, 225}

\* nc main(): the default case of the key switch
nc_key_default(io, key) ==
    IF key.kind = "char" /\ key.id >= 32 /\ key.id < 127
    THEN input_putchar(io, ToChar(key.id))
    ELSE IF key.kind = "ENTER" \/ (key.kind = "char" /\ key.id \in {13, 10})
    THEN input_putchar(io, 13)
    ELSE IF key.kind = "BACKSPACE" \/ (key.kind = "char" /\ key.id = 127)
    THEN input_putchar(io, 8)
    ELSE io

\* tui tui_main(): the newline case and the default case of the key switch
tui_key_default(io, ch) ==
    IF ch \in {10, 13}
    THEN input_put(input_put(io, 13), 10)
    ELSE IF ch >= 0 /\ ch < 256 THEN input_put(io, ToChar(ch))
    ELSE io

\* Ring states the front-end can be in when the guest starts polling: start
\* bytes 'A' were typed and read before.
RingStarts == {0, 255}

RingAfter(start) == [i \in 0..(INPUT_BUF_SIZE - 1) |-> IF i < start THEN 65 ELSE 0]

OneByteImage == [exists |-> TRUE, n |-> 1]

InitUart ==
    /\ fe \in FrontEnds
    /\ phase = "run"
    /\ rom_size = DefaultRomSize
    /\ memory = LoadedMemory(fe, OneByteImage)
    /\ cpu = z80_init
    /\ int_pending = FALSE
    /\ int_signaled = FALSE
    /\ uses_8251 = FALSE
    /\ acia_control = 0
    /\ \E start \in RingStarts :
          /\ (fe = "headless") => (start = 0)
          /\ input_buffer = RingAfter(start)
          /\ input_tail = start
          /\ input_head = start
    /\ hist = NoHist
    /\ stdin_q = <<>>
    /\ stdin_closed = FALSE
    /\ stdin_eof = FALSE
    /\ paused = TRUE
    /\ frame_i = 0
    /\ max_cycles = 0
    /\ sd = SdInit("absent")
    /\ mem_view_addr = ViewStart(fe)
    /\ dump = NoDump
    /\ image = [exists |-> TRUE, n |-> 1, loaded |-> LoadedMemory(fe, OneByteImage)]
    /\ last = NoCall

\* The guest executes IN A,(port)
UartPortIn(port) ==
    /\ phase = "run"
    /\ LET r == port_in(fe, IO, port)
       IN  /\ SetIO(r.io)
           /\ last' = [NoCall EXCEPT !.op = "in", !.a = port, !.res = r.res,
                                     !.before = Pending(fe, IO)]
           /\ hist' = HistIn(hist, fe, IO, port, r.res)
    /\ UNCHANGED <<dump, mem_view_addr, fe, phase, rom_size, memory, cpu, int_pending, paused, frame_i,
                   max_cycles, image>>

\* The guest executes OUT (port),A
UartPortOut(port, val) ==
    /\ phase = "run"
    /\ LET r == port_out(fe, IO, port, val)
       IN  /\ SetIO(r.io)
           /\ last' = [NoCall EXCEPT !.op = "out", !.a = port, !.v = val,
                                     !.emit = r.emit, !.before = Pending(fe, IO)]
           /\ hist' = HistOut(hist, port)
    /\ UNCHANGED <<dump, mem_view_addr, fe, phase, rom_size, memory, cpu, int_pending, paused, frame_i,
                   max_cycles, image>>

\* headless: a byte arrives on standard input
StdinArrive(b) ==
    /\ fe = "headless"
    /\ phase \in {"run", "step", "check"}
    /\ ~stdin_closed
    /\ hist.npush < MaxPush
    /\ stdin_q' = Append(stdin_q, b)
    /\ hist' = [hist EXCEPT !.pushed = Append(@, b), !.npush = @ + 1]
    /\ last' = [NoCall EXCEPT !.op = "push", !.v = b, !.before = stdin_q]
    /\ UNCHANGED <<dump, mem_view_addr, fe, phase, rom_size, memory, cpu, int_pending, int_signaled,
                   uses_8251, acia_control, input_buffer, input_head, input_tail,
                   stdin_closed, stdin_eof, paused, frame_i, max_cycles, sd, image>>

\* headless: standard input reaches end-of-file
StdinClose ==
    /\ fe = "headless"
    /\ phase \in {"run", "step", "check"}
    /\ ~stdin_closed
    /\ stdin_closed' = TRUE
    /\ last' = [NoCall EXCEPT !.op = "close", !.before = stdin_q]
    /\ UNCHANGED <<dump, mem_view_addr, fe, phase, rom_size, memory, cpu, int_pending, int_signaled,
                   uses_8251, acia_control, input_buffer, input_head, input_tail,
                   stdin_q, stdin_eof, paused, frame_i, max_cycles, sd, image, hist>>

\* nc: a key that is sent to the emulated system
NcKeyInput(key) ==
    /\ fe = "nc"
    /\ phase = "run"
    /\ hist.npush < MaxPush
    /\ LET io2 == nc_key_default(IO, key)
       IN  /\ SetIO(io2)
           /\ hist' = HistPush(hist, fe, IO, io2)
           /\ last' = [NoCall EXCEPT !.op = "push", !.v = key.id,
                                     !.before = Pending(fe, IO)]
    /\ UNCHANGED <<dump, mem_view_addr, fe, phase, rom_size, memory, cpu, int_pending, paused, frame_i,
                   max_cycles, image>>

\* tui: a key that is sent to the emulated system
TuiKeyInput(ch) ==
    /\ fe = "tui"
    /\ phase = "run"
    /\ hist.npush < MaxPush
    /\ LET io2 == tui_key_default(IO, ch)
       IN  /\ SetIO(io2)
           /\ hist' = HistPush(hist, fe, IO, io2)
           /\ last' = [NoCall EXCEPT !.op = "push", !.v = ch,
                                     !.before = Pending(fe, IO)]
    /\ UNCHANGED <<dump, mem_view_addr, fe, phase, rom_size, memory, cpu, int_pending, paused, frame_i,
                   max_cycles, image>>

NextUart ==
    \/ \E port \in PortSet : UartPortIn(port)
    \/ \E port \in PortSet, val \in OutVals : UartPortOut(port, val)
    \/ \E b \in StdinBytes : StdinArrive(b)
    \/ StdinClose
    \/ \E key \in NcKeys : NcKeyInput(key)
    \/ \E ch \in TuiKeys : TuiKeyInput(ch)

SpecUart == InitUart /\ [][NextUart]_vars

(***************************************************************************)
(* The main loops of the headless and the notcurses front-end: one guest   *)
(* instruction per z80_step, the interrupt check after it, and the host's  *)
(* input arriving in between.                                              *)
(***************************************************************************)
\* T-states after which the model stops stepping
CycCap == 28

\* Iterations of the notcurses run loop per frame (cycles_per_frame, scaled)
FrameSteps == 2

\* Values of the headless option -c
MaxCyclesOpts == {0, 20}

\* Guest instructions
Instrs ==
    {[op |-> o, port |-> 0, val |-> 0] : o \in {"NOP", "EI", "DI", "HALT", "IM1"}}
        \cup {[op |-> "IN", port |-> q, val |-> 0] : q \in {USART_DATA, USART_CTRL, ACIA_DATA}}
        \cup {[op |-> "OUT", port |-> USART_DATA, val |-> 97]}

\* Keys of the notcurses front-end
NcLoopKeys ==
    {[kind |-> k, id |-> 0] : k \in {"NONE", "F5", "F6", "F7", "F8", "F12"}}
        \cup {[kind |-> "char", id |-> 97]}

InitIrq ==
    /\ fe \in {"headless", "nc"}
    /\ phase = IF fe = "headless" THEN "step" ELSE "poll"
    /\ rom_size = DefaultRomSize
    /\ memory = LoadedMemory(fe, OneByteImage)
    /\ cpu = z80_init
    /\ IdleUart
    /\ image = [exists |-> TRUE, n |-> 1, loaded |-> LoadedMemory(fe, OneByteImage)]
    /\ last = NoCall
    /\ hist = NoHist

\* headless: the -c option is parsed before the loop starts
HeadlessOptions(mc) ==
    /\ fe = "headless"
    /\ phase = "step"
    /\ cpu = z80_init
    /\ max_cycles = 0
    /\ mc # 0
    /\ max_cycles' = mc
    /\ UNCHANGED <<dump, mem_view_addr, fe, phase, rom_size, memory, cpu, int_pending, paused, frame_i,
                   image, last, hist>>
    /\ UNCHANGED UartVars

\* hist after a z80_step that executed instruction i with result r
HistStep(h, i, r) ==
    [h EXCEPT !.touched = @ \/ (i.op \in {"IN", "OUT"} /\ i.port \in {USART_DATA, USART_CTRL}),
              !.accepts = @ + (IF r.accepted THEN 1 ELSE 0),
              !.ei = (i.op = "EI")]

\* The interrupt condition of the main loops
irq_condition_no_latch(f, c, io, latch) ==
    /\ io.uses_8251
    /\ IF f = "headless" THEN kbhit(io) ELSE input_available(io)
    /\ c.iff1
    /\ c.iff_delay = 0

irq_condition(f, c, io, latch) ==
    /\ io.uses_8251
    /\ IF f = "headless" THEN kbhit(io) ELSE input_available(io)
    /\ c.iff1
    /\ ~latch
    /\ c.iff_delay = 0

\* headless main loop: z80_step(&cpu)
HeadlessStep(i) ==
    /\ fe = "headless"
    /\ phase = "step"
    /\ cpu.cyc < CycCap
    /\ \E r \in {z80_step(fe, cpu, IO, i)} :
           /\ cpu' = r.cpu
           /\ SetIO(r.io)
           /\ hist' = HistStep(hist, i, r)
    /\ phase' = "check"
    /\ last' = NoCall
    /\ UNCHANGED <<dump, mem_view_addr, fe, rom_size, memory, int_pending, paused, frame_i, max_cycles, image>>

\* the run loop without the cycle cap: only HALT ends it
run_loop_exit_halt_only(c, mc) == c.halted

\* headless main loop: the two breaks, on the cycle cap and on HALT
run_loop_exit(c, mc) == (mc > 0 /\ c.cyc >= mc) \/ c.halted

\* headless main loop: the interrupt check, the latch reset and the two exits
HeadlessCheck ==
    /\ fe = "headless"
    /\ phase = "check"
    /\ LET raise == irq_condition(fe, cpu, IO, int_pending)
           cpu1 == IF raise THEN z80_gen_int(cpu, IrqVector) ELSE cpu
           ip1 == IF raise THEN TRUE ELSE int_pending
       IN  /\ cpu' = cpu1
           /\ int_pending' = IF ~cpu1.iff1 THEN FALSE ELSE ip1
           /\ hist' = [hist EXCEPT !.irqs = @ + (IF raise THEN 1 ELSE 0)]
           /\ phase' = IF run_loop_exit(cpu1, max_cycles) THEN "exit" ELSE "step"
    /\ last' = NoCall
    /\ UNCHANGED <<dump, mem_view_addr, fe, rom_size, memory, paused, frame_i, max_cycles, image>>
    /\ UNCHANGED UartVars

\* nc main loop: one pass of notcurses_get and the key switch, up to the
\* test that starts a frame.  (The keys that only move the memory view are
\* left out.)
NcPoll(key, i) ==
    /\ fe = "nc"
    /\ phase = "poll"
    /\ key.kind = "char" => hist.npush < MaxPush
    /\ key.kind = "F6" => cpu.cyc < CycCap
    /\ \E r \in {z80_step(fe, cpu, IO, i)} :
       LET stepped == key.kind = "F6" /\ ~cpu.halted
           io2 == IF key.kind = "char" THEN nc_key_default(IO, key)
                  ELSE IF stepped THEN r.io ELSE IO
           cpu2 == IF stepped THEN r.cpu
                   ELSE IF key.kind = "F8" THEN z80_init ELSE cpu
           paused2 == IF key.kind = "F5" THEN FALSE
                      ELSE IF key.kind \in {"F7", "F8"} THEN TRUE ELSE paused
       IN  /\ cpu' = cpu2
           /\ SetIO(io2)
           /\ paused' = paused2
           /\ hist' = IF key.kind = "char" THEN HistPush(hist, fe, IO, io2)
                      ELSE IF stepped THEN HistStep(hist, i, r)
                      ELSE IF key.kind = "F8" THEN [hist EXCEPT !.ei = FALSE]
                      ELSE hist
           /\ phase' = IF key.kind = "F12" THEN "exit"
                       ELSE IF ~paused2 /\ ~cpu2.halted THEN "step" ELSE "poll"
    /\ frame_i' = 0
    /\ last' = NoCall
    /\ UNCHANGED <<dump, mem_view_addr, fe, rom_size, memory, int_pending, max_cycles, image>>

\* nc run loop: z80_step(&cpu)
NcStep(i) ==
    /\ fe = "nc"
    /\ phase = "step"
    /\ frame_i < FrameSteps
    /\ ~cpu.halted
    /\ cpu.cyc < CycCap
    /\ \E r \in {z80_step(fe, cpu, IO, i)} :
           /\ cpu' = r.cpu
           /\ SetIO(r.io)
           /\ hist' = HistStep(hist, i, r)
    /\ phase' = "check"
    /\ last' = NoCall
    /\ UNCHANGED <<dump, mem_view_addr, fe, rom_size, memory, int_pending, paused, frame_i, max_cycles, image>>

\* nc run loop: the interrupt check and i++
NcCheck ==
    /\ fe = "nc"
    /\ phase = "check"
    /\ LET raise == irq_condition(fe, cpu, IO, int_signaled)
       IN  /\ cpu' = IF raise THEN z80_gen_int(cpu, IrqVector) ELSE cpu
           /\ int_signaled' = IF raise THEN TRUE ELSE int_signaled
           /\ hist' = [hist EXCEPT !.irqs = @ + (IF raise THEN 1 ELSE 0)]
    /\ frame_i' = frame_i + 1
    /\ phase' = "step"
    /\ last' = NoCall
    /\ UNCHANGED <<dump, mem_view_addr, fe, rom_size, memory, int_pending, uses_8251, acia_control,
                   input_buffer, input_head, input_tail, stdin_q, stdin_closed,
                   stdin_eof, paused, max_cycles, sd, image>>

\* nc run loop: the loop condition fails and the frame is rendered
NcFrameEnd ==
    /\ fe = "nc"
    /\ phase = "step"
    /\ frame_i >= FrameSteps \/ cpu.halted
    /\ phase' = "poll"
    /\ last' = NoCall
    /\ UNCHANGED <<dump, mem_view_addr, fe, rom_size, memory, cpu, int_pending, paused, frame_i, max_cycles,
                   image, hist>>
    /\ UNCHANGED UartVars

NextIrq ==
    \/ \E mc \in MaxCyclesOpts : HeadlessOptions(mc)
    \/ \E i \in Instrs : HeadlessStep(i)
    \/ HeadlessCheck
    \/ \E b \in {97} : StdinArrive(b)
    \/ StdinClose
    \/ \E key \in NcLoopKeys, i \in Instrs : NcPoll(key, i)
    \/ \E i \in Instrs : NcStep(i)
    \/ NcCheck
    \/ NcFrameEnd

SpecIrq == InitIrq /\ [][NextIrq]_vars

(***************************************************************************)
(* The guest driving the SD ports of the headless front-end, and accesses  *)
(* to ports no front-end maps, with one input byte waiting in the UART.    *)
(***************************************************************************)
\* The file names the guest sets: "A"
FileNames == {<<65>>}

\* bytes of a file
MaxFileLen == 2

\* Ports next to the mapped ranges that no front-end maps
UnmappedPorts == {2, 15, 22, 130}

SdPorts == {SD_CMD_PORT, SD_STATUS_PORT, SD_DATA_PORT, SD_FNAME_PORT, SD_SEEK_LO, SD_SEEK_HI}

\* The bytes the guest writes to a port: every command and one byte that is
\* none, one data byte, the file name byte 'A' and the terminator
SdVals(port) ==
    IF port = SD_CMD_PORT THEN 1..10
    ELSE IF port = SD_FNAME_PORT THEN {0, 65}
    ELSE IF port = SD_SEEK_LO THEN {0, 1}
    ELSE IF port = SD_SEEK_HI THEN {0}
    ELSE {7}

InitSd ==
    /\ fe \in FrontEnds
    /\ phase = "run"
    /\ rom_size = DefaultRomSize
    /\ memory = LoadedMemory(fe, OneByteImage)
    /\ cpu = z80_init
    /\ int_pending = FALSE
    /\ int_signaled = FALSE
    /\ uses_8251 = FALSE
    /\ acia_control = 0
    /\ input_buffer = [i \in 0..(INPUT_BUF_SIZE - 1) |-> IF i = 0 /\ fe # "headless" THEN 97 ELSE 0]
    /\ input_tail = 0
    /\ input_head = IF fe = "headless" THEN 0 ELSE 1
    /\ stdin_q = IF fe = "headless" THEN <<97>> ELSE <<>>
    /\ stdin_closed = FALSE
    /\ stdin_eof = FALSE
    /\ paused = TRUE
    /\ frame_i = 0
    /\ max_cycles = 0
    /\ \E st \in {"dir", "absent", "blocked"} :
          /\ (fe # "headless") => (st = "absent")
          /\ sd = SdInit(st)
    /\ mem_view_addr = ViewStart(fe)
    /\ dump = NoDump
    /\ image = [exists |-> TRUE, n |-> 1, loaded |-> LoadedMemory(fe, OneByteImage)]
    /\ last = NoCall
    /\ hist = NoHist

\* The guest executes IN A,(port); o resolves what the C library leaves open
SdPortIn(port, o) ==
    /\ phase = "run"
    /\ LET r == port_in(fe, [IO EXCEPT !.sd.oracle = o], port)
       IN  /\ SetIO([r.io EXCEPT !.sd.oracle = FALSE])
           /\ last' = [NoCall EXCEPT !.op = "in", !.a = port, !.res = r.res,
                                     !.before = Pending(fe, IO),
                                     !.hadfile = sd.file.open]
           /\ hist' = HistIn(hist, fe, IO, port, r.res)
    /\ UNCHANGED <<dump, mem_view_addr, fe, phase, rom_size, memory, cpu, int_pending, paused, frame_i,
                   max_cycles, image>>

\* The guest executes OUT (port),A
SdPortOut(port, val, o) ==
    /\ phase = "run"
    /\ (fe = "headless" /\ port = SD_FNAME_PORT /\ val # 0) =>
           \E n \in FileNames : sd.filename_pos < Len(n) /\ n[sd.filename_pos + 1] = val
    /\ (fe = "headless" /\ port = SD_DATA_PORT /\ sd.file.open) => sd.file.pos < MaxFileLen
    /\ LET r == port_out(fe, [IO EXCEPT !.sd.oracle = o], port, val)
       IN  /\ SetIO([r.io EXCEPT !.sd.oracle = FALSE])
           /\ last' = [NoCall EXCEPT !.op = "out", !.a = port, !.v = val,
                                     !.emit = r.emit, !.before = Pending(fe, IO),
                                     !.hadfile = sd.file.open]
           /\ hist' = HistOut(hist, port)
    /\ UNCHANGED <<dump, mem_view_addr, fe, phase, rom_size, memory, cpu, int_pending, paused, frame_i,
                   max_cycles, image>>

\* The outcomes the C library leaves open matter to fopen during a listing,
\* fgetc and fputc only, which the command and data ports reach
Oracles(port) == IF port \in {SD_CMD_PORT, SD_DATA_PORT} THEN BOOLEAN ELSE {FALSE}

NextSd ==
    \/ \E port \in SdPorts \cup UnmappedPorts : \E o \in Oracles(port) : SdPortIn(port, o)
    \/ \E port \in SdPorts \cup UnmappedPorts :
           \E o \in Oracles(port), val \in SdVals(port) : SdPortOut(port, val, o)

SpecSd == InitSd /\ [][NextSd]_vars

(***************************************************************************)
(* Claims about the bus, checked under Spec                                *)
(***************************************************************************)
\* The size of the write-protected region of the running front-end
RomLimit == IF fe = "tui" THEN RAM_START ELSE rom_size

\* C1: whatever the guest has written, every address below rom_size still
\* reads back the byte the image load placed there.
C1_RomWriteProtected ==
    phase = "run" =>
        \A a \in MemAddrs(fe) :
            a < RomLimit => mem_read(fe, memory, a) = image.loaded[a]

\* A guest store to a ROM address, of a byte other than the loaded one
C1_Witness ==
    /\ phase = "run"
    /\ last.op = "write"
    /\ last.a < RomLimit
    /\ last.v # image.loaded[last.a]

\* C2 (as claimed): memory is 64 KiB in every front-end, a store at or above
\* rom_size is read back by the next load of the address, and a load returns
\* memory[addr] for every address.
C2_ReadsUnconditional64K ==
    phase = "run" =>
        /\ last.op = "read" => last.a \in DOMAIN memory /\ last.res = memory[last.a]
        /\ (last.op = "write" /\ last.a >= RomLimit)
               => mem_read(fe, memory, last.a) = last.v

\* C3 (as claimed): the load copies min(n, 65536) bytes from address 0, leaves
\* the rest zero, succeeds iff the image holds at least one byte, and nothing
\* runs after a failed load.
C3_LoadCopiesUpTo64K ==
    phase \in {"run", "failed"} =>
        /\ (phase = "run") <=> (image.exists /\ image.n >= 1)
        /\ phase = "run" =>
               \A a \in DOMAIN image.loaded :
                   image.loaded[a] = IF a < Min(image.n, 65536) THEN ImageByte(a) ELSE 0
        /\ phase = "failed" => last.op = "load" /\ cpu = z80_init

(***************************************************************************)
(* Claims about the UART ports, checked under SpecUart                     *)
(***************************************************************************)
Has8251 == fe \in {"headless", "nc"}

\* C4 (as claimed): a status read consumes nothing and has its receive-ready
\* bit set exactly when a pushed byte is waiting for the next data-port read.
C4_StatusReadyIffBytePending ==
    /\ (last.op = "in" /\ last.a = ACIA_CTRL) =>
           /\ Pending(fe, IO) = last.before
           /\ last.res = (IF last.before # <<>> THEN 3 ELSE 2)
    /\ (Has8251 /\ last.op = "in" /\ last.a = USART_CTRL) =>
           /\ Pending(fe, IO) = last.before
           /\ last.res = (IF last.before # <<>> THEN 135 ELSE 133)

\* The bytes the data-port reads returned while the queue was non-empty
PoppedBytes == [k \in 1..Len(hist.popped) |-> hist.popped[k].b]

AllAciaReads == \A k \in 1..Len(hist.popped) : hist.popped[k].port = ACIA_DATA

\* C5: as long as the guest reads its input from ACIA data port 0x81, the
\* bytes returned by reads of a non-empty queue followed by the bytes still
\* queued are exactly the accepted pushed bytes, in order and unmodified; a
\* read of an empty queue returns 0 and leaves the queue empty.
C5_AciaFifoTransparent ==
    /\ AllAciaReads => hist.pushed = PoppedBytes \o Pending(fe, IO)
    /\ (last.op = "in" /\ last.a = ACIA_DATA /\ last.before = <<>>) =>
           (last.res = 0 /\ Pending(fe, IO) = <<>>)

\* Two different bytes, one of them above 0x7F, were pushed and read back
\* through port 0x81 in the ring front-ends
C5_Witness ==
    /\ fe = "tui"
    /\ AllAciaReads
    /\ Len(hist.popped) = 2
    /\ hist.popped[1].b = 225
    /\ hist.popped[2].b = 97
    /\ input_tail = 1

\* C6: in the front-ends that have the 8251, a read of data port 0x00 with a
\* byte queued dequeues exactly that byte b and returns b - 0x20 if b is in
\* 'a'..'z' and b otherwise; with nothing queued it returns 0 and dequeues
\* nothing; a write to port 0x00 hands the byte to the host output unchanged.
C6_UsartDataFoldsInputOnly ==
    Has8251 =>
        /\ (last.op = "in" /\ last.a = USART_DATA /\ last.before # <<>>) =>
               /\ Pending(fe, IO) = Tail(last.before)
               /\ last.res = (IF Head(last.before) \in 97..122
                              THEN Head(last.before) - 32 ELSE Head(last.before))
        /\ (last.op = "in" /\ last.a = USART_DATA /\ last.before = <<>>) =>
               (last.res = 0 /\ Pending(fe, IO) = <<>>)
        /\ (last.op = "out" /\ last.a = USART_DATA) => last.emit = <<last.v>>

\* 'z' was read through port 0x00 as 'Z' with another byte still queued
C6_Witness ==
    /\ Has8251
    /\ last.op = "in"
    /\ last.a = USART_DATA
    /\ Len(last.before) = 2
    /\ Head(last.before) = 122
    /\ last.res = 90

\* C7 (as claimed): uses_8251 is true exactly from the first read or write of
\* port 0x00 or 0x01 on.
C7_Uses8251OnAnyAccess == Has8251 => (uses_8251 <=> hist.touched)

(***************************************************************************)
(* Claims about the interrupt path, checked under SpecIrq                  *)
(***************************************************************************)
\* What the running front-end takes for "input is available"
InputAvailable == IF fe = "headless" THEN kbhit(IO) ELSE input_available(IO)

\* The host-side latch of the running front-end
HostLatch == IF fe = "headless" THEN int_pending ELSE int_signaled

\* The step is the interrupt check of the main loop
IsHostCheck == phase = "check" /\ phase' # "check"

C9_AtMostOneIrqPerByte ==
    (uses_8251 /\ ~stdin_closed) => hist.accepts <= Len(hist.pushed)

\* From its present position the main loop calls z80_step again
WillStep ==
    IF fe = "headless"
    THEN \/ phase = "step"
         \/ /\ phase = "check"
            /\ ~cpu.halted
            /\ ~(max_cycles > 0 /\ cpu.cyc >= max_cycles)
    ELSE phase # "exit" /\ ~paused /\ ~cpu.halted

\* C10 (as claimed): when a byte is pushed while the CPU of an 8251 guest is
\* halted with interrupts enabled in IM1, the front-end goes on stepping the
\* core, so that the interrupt is accepted and the CPU wakes.
C10_HaltedCpuWakesOnInput ==
    [][ (/\ uses_8251
         /\ cpu.halted
         /\ cpu.iff1
         /\ cpu.interrupt_mode = 1
         /\ phase # "exit"
         /\ fe = "nc" => ~paused
         /\ ~(max_cycles > 0 /\ cpu.cyc >= max_cycles)
         /\ Len(hist'.pushed) > Len(hist.pushed))
        => WillStep' ]_vars

\* The step is a z80_step of the main loop or of the single-step key
IsCpuStep == cpu'.cyc > cpu.cyc

\* C11: the z80_step that executes EI accepts no interrupt, so the instruction
\* following EI executes before any acceptance (the return address pushed by
\* an acceptance that follows EI lies behind that instruction); the host
\* check never raises a request, and the core never accepts one, while
\* iff_delay is not 0; and only a z80_step accepts.
C11_NoAcceptRightAfterEI ==
    [][ /\ (hist'.accepts # hist.accepts) =>
               /\ IsCpuStep
               /\ ~hist'.ei
               /\ cpu'.iff_delay = 0
               /\ hist.ei => Head(cpu'.stack) # cpu.pc
        /\ (hist'.irqs # hist.irqs) => (cpu.iff_delay = 0 /\ ~IsCpuStep)
      ]_vars

\* EI was the last instruction executed, input was already pending, the check
\* after it has requested the interrupt, and nothing has been accepted
C11_Witness ==
    /\ hist.ei
    /\ phase = "step"
    /\ cpu.int_pending
    /\ cpu.iff1
    /\ InputAvailable
    /\ hist.irqs = 1
    /\ hist.accepts = 0

(***************************************************************************)
(* The input ring of the nc and the tui front-end filled to its capacity:  *)
(* the user types a long line while the guest reads port 0x81 at its own   *)
(* pace.                                                                   *)
(***************************************************************************)
\* keys typed in one run
MaxRingPush == 257

\* The n-th key typed is a printable character, neighbours differing
KeyOf(n) == 32 + (n % 95)

\* The keys the user may type as key number n: near the capacity of the
\* ring also Enter, which the tui front-end turns into two bytes
RingKeys(n) == IF n < 254 THEN {KeyOf(n)} ELSE {KeyOf(n), 10}

InitRing ==
    /\ fe \in {"nc", "tui"}
    /\ phase = "run"
    /\ rom_size = DefaultRomSize
    /\ memory = LoadedMemory(fe, OneByteImage)
    /\ cpu = z80_init
    /\ int_pending = FALSE
    /\ int_signaled = FALSE
    /\ uses_8251 = FALSE
    /\ acia_control = 0
    /\ \E start \in RingStarts :
          /\ input_buffer = RingAfter(start)
          /\ input_tail = start
          /\ input_head = start
    /\ hist = NoHist
    /\ stdin_q = <<>>
    /\ stdin_closed = FALSE
    /\ stdin_eof = FALSE
    /\ paused = TRUE
    /\ frame_i = 0
    /\ max_cycles = 0
    /\ sd = SdInit("absent")
    /\ mem_view_addr = ViewStart(fe)
    /\ dump = NoDump
    /\ image = [exists |-> TRUE, n |-> 1, loaded |-> LoadedMemory(fe, OneByteImage)]
    /\ last = NoCall

\* nc, tui: the user types key number hist.npush
RingKey(k) ==
    /\ phase = "run"
    /\ hist.npush < MaxRingPush
    /\ LET io2 == IF fe = "nc" THEN nc_key_default(IO, [kind |-> "char", id |-> k])
                  ELSE tui_key_default(IO, k)
       IN  /\ SetIO(io2)
           /\ hist' = HistPush(hist, fe, IO, io2)
           /\ last' = [NoCall EXCEPT !.op = "push", !.v = k,
                                     !.before = Pending(fe, IO)]
    /\ UNCHANGED <<dump, mem_view_addr, fe, phase, rom_size, memory, cpu, int_pending, paused, frame_i,
                   max_cycles, image>>

NextRing ==
    \/ \E k \in RingKeys(hist.npush) : RingKey(k)
    \/ UartPortIn(ACIA_DATA)

SpecRing == InitRing /\ [][NextRing]_vars

(***************************************************************************)
(* Claims about the capacity of the input ring, checked under SpecRing     *)
(***************************************************************************)
\* The ring is full: input_putchar/input_put would not store a byte
RingFull == (input_head + 1) % INPUT_BUF_SIZE = input_tail

\* C12 (as claimed): 256 keys typed into the empty queue with no read in
\* between are all queued.
C12_QueueHolds256 ==
    (hist.npush = 256 /\ hist.popped = <<>>) => Len(Pending(fe, IO)) >= 256

\* C13: a key typed while the ring is full changes neither input_head nor
\* input_tail nor any slot of input_buffer, and at every moment the bytes
\* read so far followed by the bytes still queued are the accepted bytes in
\* the order they were typed.
C13_PushToFullDropsNewest ==
    /\ [][ (RingFull /\ last'.op = "push") =>
              /\ input_head' = input_head
              /\ input_tail' = input_tail
              /\ input_buffer' = input_buffer
              /\ hist'.pushed = hist.pushed ]_vars
    /\ [](hist.pushed = PoppedBytes \o Pending(fe, IO))

\* A key was typed into the full ring, and afterwards every queued byte was
\* read back
C13_Witness ==
    /\ hist.npush >= 256
    /\ Len(hist.pushed) = 255
    /\ Len(hist.popped) = 255
    /\ Pending(fe, IO) = <<>>

(***************************************************************************)
(* Claims about unmapped ports and the SD ports, checked under SpecSd      *)
(***************************************************************************)
\* The port map of spec.md
PortMap == {USART_DATA, USART_CTRL, ACIA_CTRL, ACIA_DATA} \cup SdPorts

\* C14: an access to a port outside the port map leaves memory, the UART
\* flags, the input queue, the SD state and the CPU unchanged and emits no
\* output, and a read of such a port returns 0xFF.
C14_UnmappedPortsInert ==
    [][ (last'.op \in {"in", "out"} /\ last'.a \notin PortMap) =>
            /\ last'.op = "in" => last'.res = 255
            /\ last'.emit = <<>>
            /\ UNCHANGED <<memory, rom_size, cpu, int_pending, int_signaled, uses_8251,
                           acia_control, input_buffer, input_head, input_tail,
                           stdin_q, stdin_closed, stdin_eof, sd>> ]_vars

\* A byte was written to unmapped port 0x16 while an SD file was open and an
\* input byte was waiting
C14_Witness ==
    /\ fe = "headless"
    /\ last.op = "out"
    /\ last.a = 22
    /\ sd.file.open
    /\ stdin_q # <<>>

\* Bit 0x80 of a status byte
HasData(b) == (b \div SD_STATUS_DATA) % 2 = 1

\* Bit 0x02 of a status byte
HasError(b) == (b \div SD_STATUS_ERROR) % 2 = 1

\* C15: a read of SD status port 0x11 changes no SD state, and its bit 0x80
\* is set exactly when a file stream or a directory iterator is open.
C15_StatusDataIffOpen ==
    [][ (fe = "headless" /\ last'.op = "in" /\ last'.a = SD_STATUS_PORT) =>
            /\ sd' = sd
            /\ HasData(last'.res) <=> (sd.nfiles > 0 \/ sd.ndirs > 0)
            /\ HasData(last'.res) <=> (sd.file.open \/ sd.dir.open) ]_vars

\* The status was read as READY|DATA with only a directory listing open
C15_Witness ==
    /\ fe = "headless"
    /\ last.op = "in"
    /\ last.a = SD_STATUS_PORT
    /\ last.res = 129
    /\ ~sd.file.open
    /\ sd.dir.open

OpenCmds == {SD_CMD_OPEN_READ, SD_CMD_CREATE, SD_CMD_OPEN_APPEND, SD_CMD_OPEN_RW}

SeekCmds == {SD_CMD_SEEK_START, SD_CMD_SEEK_BYTE, SD_CMD_SEEK_16}

\* The step is a write of a command byte to port 0x10
IsSdCmd == fe = "headless" /\ last'.op = "out" /\ last'.a = SD_CMD_PORT

\* The command of the step succeeded
SdCmdSucceeded ==
    /\ IsSdCmd
    /\ \/ last'.v \in OpenCmds /\ sd'.file.open
       \/ last'.v \in SeekCmds /\ sd.file.open
       \/ last'.v = SD_CMD_DIR /\ sd'.dir.open
       \/ last'.v = SD_CMD_CLOSE

\* The command of the step failed
SdCmdFailed ==
    /\ IsSdCmd
    /\ \/ last'.v \in OpenCmds /\ ~sd'.file.open
       \/ last'.v \in SeekCmds /\ ~sd.file.open
       \/ last'.v = SD_CMD_DIR /\ ~sd'.dir.open

\* C16 (as claimed): a failing command leaves the stored status at
\* ERROR|READY, a succeeding one at READY, and once set the ERROR bit stays
\* set over every step that is not a succeeding command.
C16_ErrorUntilNextSuccess ==
    [][ fe = "headless" =>
            /\ SdCmdFailed => sd'.status = 3
            /\ SdCmdSucceeded => sd'.status = 1
            /\ (HasError(sd.status) /\ ~SdCmdSucceeded) => HasError(sd'.status) ]_vars

\* The data port is read with the open file at its end, or with no file open
\* and the directory listing at its end
SdReadAtEnd ==
    /\ fe = "headless"
    /\ last'.op = "in"
    /\ last'.a = SD_DATA_PORT
    /\ \/ sd.file.open /\ sd.file.pos >= Len(sd.fs[sd.file.name])
       \/ /\ ~sd.file.open
          /\ sd.dir.open
          /\ sd.dir_entry_pos >= Len(sd.dir_entry)
          /\ sd.dir.rest = <<>>

\* C17 (as claimed): a data read at the end of the file or of the listing
\* closes the handle it read from, returns 0, and the next status read has
\* DATA_AVAILABLE clear.
C17_EofClearsDataAvailable ==
    [][ SdReadAtEnd =>
            /\ sd.file.open => ~sd'.file.open
            /\ ~sd.file.open => ~sd'.dir.open
            /\ last'.res = 0
            /\ ~HasData(sd_status_read(sd')) ]_vars

\* C18: the process holds exactly the stream sd_file points to and exactly
\* the iterator sd_dir points to, so never two of either and none leaked;
\* after an open command a file is open exactly when the status is READY
\* without ERROR; after CLOSE neither is open and the status is READY.
C18_SingleFileHandle ==
    fe = "headless" =>
        /\ sd.nfiles = (IF sd.file.open THEN 1 ELSE 0)
        /\ sd.ndirs = (IF sd.dir.open THEN 1 ELSE 0)
        /\ (last.op = "out" /\ last.a = SD_CMD_PORT /\ last.v \in OpenCmds) =>
               /\ sd.file.open <=> sd.status = 1
               /\ ~sd.file.open <=> sd.status = 3
        /\ (last.op = "out" /\ last.a = SD_CMD_PORT /\ last.v = SD_CMD_CLOSE) =>
               /\ ~sd.file.open
               /\ ~sd.dir.open
               /\ sd.status = 1

\* An open command was issued while a file was open, and it failed
C18_Witness ==
    /\ fe = "headless"
    /\ last.op = "out"
    /\ last.a = SD_CMD_PORT
    /\ last.v \in OpenCmds
    /\ last.hadfile
    /\ ~sd.file.open
    /\ sd.nfiles = 0

(***************************************************************************)
(* The debugger front-ends disassembling one instruction at an address.    *)
(***************************************************************************)
\* Addresses disassembled: the start, the middle and the end of the address
\* space, where the instruction bytes wrap around to 0x0000
DisasmAddrs == {0, 4660, 65533, 65534, 65535}

\* Displacement and operand bytes
DispBytes == {0, 1, 127, 128, 253, 255}

\* The instruction bytes placed at the address: every unprefixed opcode with
\* the operand bytes above, every CB and ED opcode, every opcode after DD and
\* FD, and after DD/FD every CB sub-opcode and every ED opcode
DisasmInputs ==
    {<<b0, b1, 52, 18>> : b0 \in (0..255) \ {203, 221, 237, 253}, b1 \in DispBytes}
        \cup {<<b0, b1, 52, 18>> : b0 \in {203, 237}, b1 \in 0..255}
        \cup {<<b0, b1, b2, 18>> : b0 \in {221, 253}, b1 \in 0..255, b2 \in {5, 128}}
        \cup {<<b0, 203, b2, b3>> : b0 \in {221, 253}, b2 \in {5, 128}, b3 \in 0..255}
        \cup {<<b0, 237, b2, 52, 18>> : b0 \in {221, 253}, b2 \in 0..255}

\* The debugger is about to draw the instruction at addr; the bytes there
\* are recorded in last.before
InitDisasm ==
    /\ fe = "nc"
    /\ phase = "run"
    /\ rom_size = DefaultRomSize
    /\ memory = LoadedMemory(fe, OneByteImage)
    /\ cpu = z80_init
    /\ IdleUart
    /\ hist = NoHist
    /\ image = [exists |-> TRUE, n |-> 1, loaded |-> LoadedMemory(fe, OneByteImage)]
    /\ \E addr \in DisasmAddrs, bytes \in DisasmInputs :
           last = [NoCall EXCEPT !.op = "draw", !.a = addr, !.before = bytes]

\* draw_disasm: z80_disasm(memory, addr, buf, sizeof(buf))
Disassemble(addr, bytes) ==
    /\ phase = "run"
    /\ last.op = "draw"
    /\ LET r == z80_disasm([base |-> addr, bytes |-> bytes], addr)
       IN  last' = [NoCall EXCEPT !.op = "disasm", !.a = addr, !.before = bytes,
                                 !.res = r.len, !.emit = r.text]
    /\ UNCHANGED <<dump, mem_view_addr, fe, phase, rom_size, memory, cpu, int_pending, paused, frame_i,
                   max_cycles, image, hist>>
    /\ UNCHANGED UartVars

NextDisasm == Disassemble(last.a, last.before)

SpecDisasm == InitDisasm /\ [][NextDisasm]_vars

(***************************************************************************)
(* Claims about the disassembler, checked under SpecDisasm                 *)
(***************************************************************************)
\* C19 (as claimed): the length returned is at least 1 and at most 4.
C19_DisasmLengthAtMost4 ==
    last.op = "disasm" => (last.res >= 1 /\ last.res <= 4)

\* The unprefixed relative jumps and the text before their target
RelJumps == {16, 24, 32, 40, 48, 56}

RelJumpHead(op) ==
    IF op = 16 THEN "DJNZ $" ELSE IF op = 24 THEN "JR $" ELSE IF op = 32 THEN "JR NZ,$"
    ELSE IF op = 40 THEN "JR Z,$" ELSE IF op = 48 THEN "JR NC,$" ELSE "JR C,$"

\* C20: for an unprefixed DJNZ, JR or JR cc at addr whose displacement byte
\* d is the byte at (addr + 1) mod 65536, the length is 2 and the text ends
\* in the four hex digits of (addr + 2 + signed8(d)) mod 65536.
C20_RelativeJumpTarget ==
    (last.op = "disasm" /\ last.before[1] \in RelJumps) =>
        LET d == last.before[2]
            t == (last.a + 2 + (IF d >= 128 THEN d - 256 ELSE d)) % 65536
        IN  /\ last.res = 2
            /\ last.emit = RelJumpHead(last.before[1]) \o Hex4(t)

\* JR NZ at address 0xFFFF with displacement byte 0x80 read from address 0:
\* the target wraps to 0xFF81
C20_Witness ==
    /\ last.op = "disasm"
    /\ last.a = 65535
    /\ last.before[1] = 32
    /\ last.before[2] = 128
    /\ last.emit = "JR NZ,$FF81"

\* The index register a DD or FD prefix selects
IndexReg(prefix) == IF prefix = 221 THEN "IX" ELSE "IY"

\* ADD HL,rr: opcodes 0x09, 0x19, 0x29, 0x39
AddHlOps == {9, 25, 41, 57}

\* C21 (as claimed): after a DD or FD prefix, ADD HL,rr names the index
\* register in every place the unprefixed mnemonic names HL (DD 09 is
\* ADD IX,BC and DD 29 is ADD IX,IX), with length 2.
C21_PrefixedAddNamesIndexRegister ==
    (last.op = "disasm" /\ last.before[1] \in {221, 253} /\ last.before[2] \in AddHlOps) =>
        LET xy == IndexReg(last.before[1])
            p  == last.before[2] \div 16
        IN  /\ last.res = 2
            /\ last.emit = "ADD " \o xy \o "," \o (IF p = 2 THEN xy ELSE r16[p + 1])

\* The texts that are a DB pseudo-instruction of one or two bytes
DbTexts ==
    {"DB $" \o Hex2(b) : b \in 0..255}
        \cup {"DB $" \o Hex2(a) \o ",$" \o Hex2(b) : a \in {221, 237, 253}, b \in 0..255}

\* The ED opcodes that are none of the instructions the specification lists:
\* all of 0x00..0x3F and 0xC0..0xFF, 0x77 and 0x7F, and 0x80..0xBF except the
\* block instructions
EdUnlisted ==
    {b \in 0..255 :
        \/ b < 64
        \/ b >= 192
        \/ b \in {119, 127}
        \/ (b >= 128 /\ ~((b % 8) <= 3 /\ ((b \div 8) % 8) >= 4))}

\* Main-table opcodes that reference neither HL nor (HL): NOP, LD B,B, LD A,n
NoHlOps == {0, 62, 64}

\* C22 (as claimed): ED followed by a byte that is no listed ED instruction
\* disassembles to DB $ED,$xx with length 2, and a DD or FD prefix followed by
\* another DD/FD or by an opcode that does not reference HL disassembles to a
\* DB pseudo-instruction.
C22_FallbackIsDb ==
    last.op = "disasm" =>
        /\ (last.before[1] = 237 /\ last.before[2] \in EdUnlisted) =>
               (last.res = 2 /\ last.emit = "DB $ED,$" \o Hex2(last.before[2]))
        /\ (last.before[1] \in {221, 253} /\ last.before[2] \in {221, 253} \cup NoHlOps) =>
               last.emit \in DbTexts

(***************************************************************************)
(* The headless run loop alone, scheduled fairly: the loop body has no     *)
(* blocking call, so a step or a check that is due is eventually made.     *)
(***************************************************************************)
InitRun ==
    /\ InitIrq
    /\ fe = "headless"

NextRun ==
    \/ \E mc \in MaxCyclesOpts : HeadlessOptions(mc)
    \/ \E i \in Instrs : HeadlessStep(i)
    \/ HeadlessCheck
    \/ \E b \in {97} : StdinArrive(b)
    \/ StdinClose

SpecRun ==
    /\ InitRun
    /\ [][NextRun]_vars
    /\ WF_vars(\E i \in Instrs : HeadlessStep(i))
    /\ WF_vars(HeadlessCheck)

\* C23: with max_cycles > 0 the headless run loop terminates; the check after
\* a step leaves the loop exactly when cyc >= max_cycles (max_cycles > 0) or
\* the CPU is halted, and no CPU step follows the exit.
C23_RunLoopTerminates ==
    /\ (max_cycles > 0) ~> (phase = "exit")
    /\ [][(phase = "check" /\ phase' # "check") =>
             ((phase' = "exit") <=>
                 ((max_cycles > 0 /\ cpu'.cyc >= max_cycles) \/ cpu'.halted))]_vars
    /\ [][phase = "exit" => (phase' = "exit" /\ cpu' = cpu)]_vars

\* The loop was left on the cycle cap with the CPU still running
C23_Witness ==
    /\ fe = "headless"
    /\ phase = "exit"
    /\ max_cycles > 0
    /\ cpu.cyc >= max_cycles
    /\ ~cpu.halted

(***************************************************************************)
(* The guest setting file names through port 0x13 of the headless          *)
(* front-end: a first name of up to MaxNameLen bytes, then shorter ones.   *)
(* last.before holds the nonzero bytes written since the last terminator   *)
(* and last.a the number of names terminated so far.                       *)
(***************************************************************************)
\* Nonzero bytes the guest writes for the first name
MaxNameLen == 257

\* Nonzero bytes the guest writes for a later name
ShortNameLen == 2

\* Names the guest sets
MaxNames == 2

\* The i-th byte (from 0) of the m-th name (from 0): the first name runs
\* through every nonzero byte, 0xFF first; later names are lower-case letters
NameByte(m, i) == IF m = 0 THEN 1 + ((i + 254) % 255) ELSE 97 + ((i + m) % 26)

InitFname ==
    /\ InitSd
    /\ fe = "headless"

\* The guest executes OUT (0x13),A
FnameWrite(val) ==
    /\ phase = "run"
    /\ LET cur == IF last.op = "fname" /\ last.v # 0 THEN last.before ELSE <<>>
           m   == IF last.op = "fname" THEN last.a ELSE 0
           r   == port_out(fe, IO, SD_FNAME_PORT, val)
       IN  /\ m < MaxNames
           /\ val # 0 => /\ Len(cur) < (IF m = 0 THEN MaxNameLen ELSE ShortNameLen)
                         /\ val = NameByte(m, Len(cur))
           /\ SetIO(r.io)
           /\ last' = [NoCall EXCEPT !.op = "fname", !.v = val,
                                     !.a = IF val = 0 THEN m + 1 ELSE m,
                                     !.before = IF val = 0 THEN cur ELSE Append(cur, val),
                                     !.emit = r.emit]
           /\ hist' = HistOut(hist, SD_FNAME_PORT)
    /\ UNCHANGED <<dump, mem_view_addr, fe, phase, rom_size, memory, cpu, int_pending, paused, frame_i,
                   max_cycles, image>>

NextFname == \E val \in 0..255 : FnameWrite(val)

SpecFname == InitFname /\ [][NextFname]_vars

\* The first n elements of a sequence
Take(q, n) == [k \in 1..Min(n, Len(q)) |-> q[k]]

\* C24: after nonzero bytes b1..bn and a 0 byte written to port 0x13 the file
\* name is b1..bn (b1..b255 when n > 255) and the cursor is 0, whatever name
\* was set before; the cursor always stays within 0..255.
C24_FilenameSetExactly ==
    /\ sd.filename_pos \in 0..(SD_FNAME_SIZE - 1)
    /\ (last.op = "fname" /\ last.v = 0) =>
           /\ CString(sd.filename) = Take(last.before, SD_FNAME_SIZE - 1)
           /\ sd.filename_pos = 0

\* A short name was set after one of more than 255 bytes
C24_Witness ==
    /\ last.op = "fname"
    /\ last.v = 0
    /\ last.a = 2
    /\ Len(last.before) = 1
    /\ sd.filename[2] # 0
    /\ sd.filename[SD_FNAME_SIZE - 1] = 0
    /\ sd.filename[SD_FNAME_SIZE - 2] # 0

\* C25 (as claimed): DD CB d op and FD CB d op have length 4 for every
\* sub-opcode op, and the text names the memory operand rather than being the
\* text of the register instruction CB op.
C25_IndexedBitOpsLength4 ==
    (last.op = "disasm" /\ last.before[1] \in {221, 253} /\ last.before[2] = 203) =>
        /\ last.res = 4
        /\ last.emit # z80_disasm([base |-> 0, bytes |-> <<203, last.before[4]>>], 0).text

\* Bytes the guest has dequeued through a data port
Dequeued == Len(hist.pushed) - Len(Pending(fe, IO))

\* C26 (as claimed): between a call of z80_gen_int and the guest's next
\* data-port read that dequeues a byte the main loop makes no second call;
\* hence every call but the latest was followed by such a read, and the calls
\* exceed the bytes dequeued by at most one.  (Stated while standard input is
\* open, so that a call made for end-of-file is not what refutes it.)
C26_NoSecondRaiseBeforeRead ==
    ~stdin_closed => hist.irqs <= Dequeued + 1

\* C27 (as claimed): a CPU step that accepts an interrupt leaves an input byte
\* pending, so the interrupt routine never starts with an empty queue.
\* (Stated while standard input is open.)
C27_AcceptedWhileInputPending ==
    [][(hist'.accepts = hist.accepts + 1 /\ ~stdin_closed') =>
           Pending(fe, IO)' # <<>>]_vars

(***************************************************************************)
(* The debugger of the tui front-end: the memory-view keys, CPU steps that *)
(* move PC, and the two windows that read memory[] directly.  last.before  *)
(* holds the indices of memory[] the window read.                          *)
(***************************************************************************)
\* Values PC takes after a step (JP nn; PC running up to the end of RAM)
ViewPcs == {0, 10, 32767, 32768, 65535}

InitView ==
    /\ fe = "tui"
    /\ phase = "run"
    /\ rom_size = DefaultRomSize
    /\ memory = LoadedMemory(fe, OneByteImage)
    /\ cpu = z80_init
    /\ IdleUart
    /\ hist = NoHist
    /\ image = [exists |-> TRUE, n |-> 1, loaded |-> LoadedMemory(fe, OneByteImage)]
    /\ last = NoCall

\* tui_main, KEY_F(9)
ViewKeyF9 ==
    /\ phase = "run"
    /\ mem_view_addr' = IF mem_view_addr >= 64 THEN mem_view_addr - 64 ELSE mem_view_addr
    /\ last' = NoCall
    /\ UNCHANGED <<dump, fe, phase, rom_size, memory, cpu, int_pending, paused, frame_i,
                   max_cycles, image, hist>>
    /\ UNCHANGED UartVars

\* tui_main, KEY_F(10)
ViewKeyF10 ==
    /\ phase = "run"
    /\ mem_view_addr' = IF mem_view_addr < 65280 THEN mem_view_addr + 64 ELSE mem_view_addr
    /\ last' = NoCall
    /\ UNCHANGED <<dump, fe, phase, rom_size, memory, cpu, int_pending, paused, frame_i,
                   max_cycles, image, hist>>
    /\ UNCHANGED UartVars

\* tui_main: z80_step(&cpu) leaving PC at nn
ViewStep(nn) ==
    /\ phase = "run"
    /\ cpu' = [cpu EXCEPT !.pc = nn]
    /\ last' = NoCall
    /\ UNCHANGED <<dump, mem_view_addr, fe, phase, rom_size, memory, int_pending, paused, frame_i,
                   max_cycles, image, hist>>
    /\ UNCHANGED UartVars

\* draw_mem: memory[(addr + col) & 0xFFFF] for 8 rows of 8 columns, addr
\* (uint16_t) starting at mem_view_addr and advancing by 8
draw_mem_reads(view) ==
    [k \in 1..64 |-> (((view + 8 * ((k - 1) \div 8)) % 65536) + ((k - 1) % 8)) % 65536]

\* draw_disasm: the opcode fetches mem[addr & 0xFFFF] of the first
\* z80_disasm call of the scan before PC (when PC > 0) and of the call at PC
draw_disasm_reads(pc) ==
    LET scan == IF pc > 16 THEN pc - 16 ELSE 0
    IN  (IF scan < pc THEN <<scan>> ELSE <<>>) \o <<pc>>

DrawMem ==
    /\ phase = "run"
    /\ last' = [NoCall EXCEPT !.op = "draw_mem", !.a = mem_view_addr,
                              !.before = draw_mem_reads(mem_view_addr)]
    /\ UNCHANGED <<dump, mem_view_addr, fe, phase, rom_size, memory, cpu, int_pending, paused,
                   frame_i, max_cycles, image, hist>>
    /\ UNCHANGED UartVars

DrawDisasm ==
    /\ phase = "run"
    /\ last' = [NoCall EXCEPT !.op = "draw_disasm", !.a = cpu.pc,
                              !.before = draw_disasm_reads(cpu.pc)]
    /\ UNCHANGED <<dump, mem_view_addr, fe, phase, rom_size, memory, cpu, int_pending, paused,
                   frame_i, max_cycles, image, hist>>
    /\ UNCHANGED UartVars

NextView ==
    \/ ViewKeyF9
    \/ ViewKeyF10
    \/ \E nn \in ViewPcs : ViewStep(nn)
    \/ DrawMem
    \/ DrawDisasm

SpecView == InitView /\ [][NextView]_vars

\* C28 (as claimed): every index the tui front-end's memory and disassembly
\* windows use to read memory[] is below MEM_SIZE = 0x8000.
C28_TuiMemoryIndicesInRange ==
    last.op \in {"draw_mem", "draw_disasm"} =>
        \A k \in 1..Len(last.before) : last.before[k] < TUI_MEM_SIZE

(***************************************************************************)
(* The memory dump of the headless front-end after the run loop (option    *)
(* -m addr len).  last.before holds the indices of memory[] a row read.    *)
(***************************************************************************)
\* Values of dump_addr
DumpAddrs == {0, 32768, 65535}

\* Values of dump_len
DumpLens == {0, 1, 16, 17, 256, 65520, 65521, 65535}

InitDump ==
    /\ fe = "headless"
    /\ phase = "dump"
    /\ rom_size = DefaultRomSize
    /\ memory = LoadedMemory(fe, OneByteImage)
    /\ cpu = [z80_init EXCEPT !.halted = TRUE]
    /\ int_pending = FALSE
    /\ int_signaled = FALSE
    /\ uses_8251 = FALSE
    /\ acia_control = 0
    /\ input_buffer = [k \in 0..(INPUT_BUF_SIZE - 1) |-> 0]
    /\ input_head = 0
    /\ input_tail = 0
    /\ stdin_q = <<>>
    /\ stdin_closed = FALSE
    /\ stdin_eof = FALSE
    /\ paused = TRUE
    /\ frame_i = 0
    /\ max_cycles = 0
    /\ sd = SdInit("absent")
    /\ mem_view_addr = ViewStart(fe)
    /\ \E a \in DumpAddrs, n \in DumpLens : dump = [addr |-> a, len |-> n, i |-> 0]
    /\ hist = NoHist
    /\ image = [exists |-> TRUE, n |-> 1, loaded |-> LoadedMemory(fe, OneByteImage)]
    /\ last = NoCall

\* The indices memory[dump_addr + i + j] of one row: j < 16 && i + j < dump_len
dump_row_reads(d) ==
    LET n == IF d.len - d.i < 16 THEN d.len - d.i ELSE 16
    IN  [k \in 1..n |-> d.addr + d.i + (k - 1)]

\* One pass of the outer loop: i < dump_len, the row, i += 16 (uint16_t)
DumpRow ==
    /\ phase = "dump"
    /\ dump.i < dump.len
    /\ last' = [NoCall EXCEPT !.op = "dump_row", !.a = dump.i,
                              !.before = dump_row_reads(dump)]
    /\ dump' = [dump EXCEPT !.i = (@ + 16) % 65536]
    /\ UNCHANGED <<mem_view_addr, fe, phase, rom_size, memory, cpu, int_pending, paused,
                   frame_i, max_cycles, image, hist>>
    /\ UNCHANGED UartVars

\* The outer loop ends: i >= dump_len; return 0
DumpEnd ==
    /\ phase = "dump"
    /\ dump.i >= dump.len
    /\ phase' = "exit"
    /\ last' = NoCall
    /\ UNCHANGED <<dump, mem_view_addr, fe, rom_size, memory, cpu, int_pending, paused,
                   frame_i, max_cycles, image, hist>>
    /\ UNCHANGED UartVars

NextDump ==
    \/ DumpRow
    \/ DumpEnd

SpecDump ==
    /\ InitDump
    /\ [][NextDump]_vars
    /\ WF_vars(DumpRow)
    /\ WF_vars(DumpEnd)

\* C29 (as claimed): the dump terminates for every dump_addr and dump_len,
\* and every index it reads is below 65536.
C29_DumpTerminatesInRange ==
    /\ <>(phase = "exit")
    /\ [](last.op = "dump_row" =>
             \A k \in 1..Len(last.before) : last.before[k] < MEM_SIZE)

(***************************************************************************)
(* Pushes, pops and resets on the input ring of the nc and tui front-ends, *)
(* starting from an empty, a nearly empty, a nearly full and a full ring   *)
(* whose indices are about to wrap or not.  last.res counts the bytes      *)
(* stored and not yet handed out, last.a the operations made and last.v    *)
(* the byte a pop returned.                                                *)
(***************************************************************************)
\* Operations made on the ring in one run
MaxRingOps == 3

\* Bytes 'B' waiting in the ring at the start
RingFills == {0, 1, 254, 255}

\* The ring after start bytes 'A' were typed and read and fill bytes 'B' typed
RingFilled(start, fill) ==
    [i \in 0..(INPUT_BUF_SIZE - 1) |->
        IF ((i - start) % INPUT_BUF_SIZE) < fill THEN 66
        ELSE IF i < start THEN 65 ELSE 0]

InitOps ==
    /\ fe \in {"nc", "tui"}
    /\ phase = "run"
    /\ rom_size = DefaultRomSize
    /\ memory = LoadedMemory(fe, OneByteImage)
    /\ cpu = z80_init
    /\ int_pending = FALSE
    /\ int_signaled = FALSE
    /\ uses_8251 = FALSE
    /\ acia_control = 0
    /\ \E start \in RingStarts, fill \in RingFills :
          /\ input_buffer = RingFilled(start, fill)
          /\ input_tail = start
          /\ input_head = (start + fill) % INPUT_BUF_SIZE
          /\ last = [NoCall EXCEPT !.res = fill]
    /\ hist = NoHist
    /\ stdin_q = <<>>
    /\ stdin_closed = FALSE
    /\ stdin_eof = FALSE
    /\ paused = TRUE
    /\ frame_i = 0
    /\ max_cycles = 0
    /\ sd = SdInit("absent")
    /\ mem_view_addr = ViewStart(fe)
    /\ dump = NoDump
    /\ image = [exists |-> TRUE, n |-> 1, loaded |-> LoadedMemory(fe, OneByteImage)]

\* The calls of input_putchar/input_put a key makes, in order
KeyBytes(f, k) == IF f = "tui" /\ k = 10 THEN <<13, 10>> ELSE IF k = 10 THEN <<13>> ELSE <<k>>

\* Bytes the calls stored: a call stores one when it changes the ring
Stored(f, io, k) ==
    LET put(o, c) == IF f = "nc" THEN input_putchar(o, c) ELSE input_put(o, c)
        b   == KeyBytes(f, k)
        io1 == put(io, b[1])
    IN  (IF io1 # io THEN 1 ELSE 0)
            + (IF Len(b) = 2 /\ put(io1, b[2]) # io1 THEN 1 ELSE 0)

\* The user types key k
OpsPush(k) ==
    /\ phase = "run"
    /\ last.a < MaxRingOps
    /\ LET io2 == IF fe = "nc" THEN nc_key_default(IO, [kind |-> "char", id |-> k])
                  ELSE tui_key_default(IO, k)
       IN  /\ SetIO(io2)
           /\ last' = [NoCall EXCEPT !.op = "push", !.a = last.a + 1, !.v = k,
                                     !.res = last.res + Stored(fe, IO, k)]
    /\ UNCHANGED <<dump, mem_view_addr, fe, phase, rom_size, memory, cpu, int_pending, paused,
                   frame_i, max_cycles, image, hist>>

\* The guest reads the ACIA data port
OpsPop ==
    /\ phase = "run"
    /\ last.a < MaxRingOps
    /\ LET r == port_in(fe, IO, ACIA_DATA)
       IN  /\ SetIO(r.io)
           /\ last' = [NoCall EXCEPT !.op = "pop", !.a = last.a + 1, !.v = r.res,
                                     !.res = last.res - (IF r.io # IO THEN 1 ELSE 0)]
    /\ UNCHANGED <<dump, mem_view_addr, fe, phase, rom_size, memory, cpu, int_pending, paused,
                   frame_i, max_cycles, image, hist>>

\* tui, F8: reset_cpu()
OpsReset ==
    /\ fe = "tui"
    /\ phase = "run"
    /\ last.a < MaxRingOps
    /\ cpu' = z80_init
    /\ input_head' = 0
    /\ input_tail' = 0
    /\ last' = [NoCall EXCEPT !.op = "reset", !.a = last.a + 1, !.res = 0]
    /\ UNCHANGED <<dump, mem_view_addr, fe, phase, rom_size, memory, int_pending, paused, frame_i,
                   max_cycles, image, hist>>
    /\ UNCHANGED <<int_signaled, uses_8251, acia_control, input_buffer, stdin_q,
                   stdin_closed, stdin_eof, sd>>

NextOps ==
    \/ \E k \in {10, 97} : OpsPush(k)
    \/ OpsPop
    \/ OpsReset

SpecOps == InitOps /\ [][NextOps]_vars

\* C30: both indices stay within 0..255, the bytes stored and not yet handed
\* out number (input_head - input_tail) mod 256 and at most 255, the queue is
\* reported empty exactly when the indices are equal, and a pop on an empty
\* ring returns 0 and changes neither index.
C30_RingIndexInvariants ==
    /\ [](/\ input_head \in 0..(INPUT_BUF_SIZE - 1)
          /\ input_tail \in 0..(INPUT_BUF_SIZE - 1)
          /\ last.res = (input_head - input_tail) % INPUT_BUF_SIZE
          /\ last.res <= INPUT_BUF_SIZE - 1
          /\ input_available(IO) <=> (input_head # input_tail)
          /\ input_available(IO) <=> (last.res > 0))
    /\ [][(last'.op = "pop" /\ last'.a = last.a + 1 /\ last.res = 0) =>
             (last'.v = 0 /\ input_head' = input_head /\ input_tail' = input_tail)]_vars

\* A pop on the empty ring, after the last byte was popped across the wrap
C30_Witness ==
    /\ last.op = "pop"
    /\ last.a >= 2
    /\ last.res = 0
    /\ last.v = 0
    /\ input_head = 0
    /\ input_tail = 0
    /\ input_buffer[255] = 66

====
